---- MODULE Spec2Model ----
(***************************************************************************)
(* JobSearchAssist: the page-side processing session of                    *)
(* BaseJobSiteAdapter, the request/response channel of JobProcessor, the   *)
(* analyzer of background.js and the result cache with its two             *)
(* collections.                                                            *)
(***************************************************************************)
EXTENDS Integers, Sequences, FiniteSets, TLC

(***************************************************************************)
(* Bounds of the model.                                                    *)
(***************************************************************************)
MaxCmds == 2        \* startProcessing commands received per page context
MaxReq == 2         \* requests sent through the channel
MaxGen == 4         \* generated (fallback) listing ids
MaxBudget == 1      \* largest maxJobsToProcess the popup stores
MaxLoads == 1       \* page loads (new page contexts) after the first

(***************************************************************************)
(* Program constants.                                                      *)
(***************************************************************************)
DefaultMaxJobs == 100   \* startProcessing: let maxJobsToProcess = 100

(***************************************************************************)
(* The page.  Page 0 shows no job list; pages 1..NumPages show one.        *)
(* Listing elements "A", "B" and "C" carry a job id in the DOM, "N"        *)
(* carries none of the attributes or links getListingId looks for.         *)
(* The tab shows one of three result lists: list 1 has the listings A, N  *)
(* on its first page and B on its second, list 2 has A, B, C on its first  *)
(* page and N on its second, list 3 has A on its first page and a second   *)
(* page without listings.                                                  *)
(***************************************************************************)
VARIABLE site           \* the result list the tab shows (1, 2 or 3)

Pages ==
    IF site = 1 THEN << <<"A", "N">>, <<"B">> >>
    ELSE IF site = 2 THEN << <<"A", "B", "C">>, <<"N">> >>
    ELSE << <<"A">>, << >> >>
NumPages == Len(Pages)

\* LinkedInAdapter.findJobListings
findJobListings(p) == IF p = 0 THEN << >> ELSE Pages[p]

\* LinkedInAdapter.findNextPageButton: present, enabled and visible
findNextPageButton(p) == p >= 1 /\ p < NumPages

\* the id the DOM gives for a listing element (0: none)
DomId(e) == CASE e = "A" -> 1 [] e = "B" -> 2 [] e = "C" -> 3 [] OTHER -> 0

\* LinkedInAdapter.getListingId: a DOM id when a strategy finds one, otherwise
\* a generated id job_<Date.now()>_<random>, new at every call (the negative
\* numbers stand for the generated ids)
getListingId(e, gen) == IF DomId(e) # 0 THEN DomId(e) ELSE 0 - (gen + 1)

\* whether getListingId(e, _) draws a generated id
UsesGen(e) == IF DomId(e) # 0 THEN 0 ELSE 1

\* cacheKey = `job_${content.jobId}`
CacheKey(id) == <<"job_", id>>

\* jobId = key.startsWith('job_') ? key.substring(4) : key
KeyToId(key) == IF key[1] = "job_" THEN key[2] ELSE key

VARIABLES
    resultsPage,        \* the results page that has loaded ("none": none yet)
    storedJobs,         \* result.matchingJobs / result.rejectedJobs as it read it
    jobList,            \* the jobs it hands to populateJobList
    titleElement,       \* extractListingContent: the title element found in the
                        \* listing (which of its texts is read, and the text)
    title,              \* extractListingContent: title
    titleDone,          \* the title has been extracted
    page,               \* the page the tab shows
    storedMax,          \* chrome.storage.local maxJobsToProcess (0: unset)
    apiKey,             \* chrome.storage.local apiKey is a non-empty string
                        \* (it is set on the options page, before the sessions)
    isProcessing,       \* adapter.isProcessing
    pc,                 \* position of the session in startProcessing
    owner,              \* the command whose startProcessing runs the session
    processedListings,  \* processor.processedListings
    total,              \* adapter.totalJobsProcessedThisSession
    maxJobs,            \* maxJobsToProcess of the running session (0: not read)
    listings,           \* processCurrentPage: listings
    i,                  \* processCurrentPage: loop index (1-based)
    processedCount,     \* processCurrentPage: processedCount
    failedCount,        \* processCurrentPage: failedCount
    remaining,          \* processCurrentPage: remainingJobsAllowed
    listingId,          \* processCurrentPage: listingId of the current listing
    jobId,              \* content.jobId of the current listing
    curReq,             \* the request the session awaits (0: none)
    nextGen,            \* generated ids used so far
    responseCache,      \* processor.responseCache
    localStore,         \* window.localStorage, the job_ keys
    matchingJobs,       \* processor.matchingJobs
    rejectedJobs,       \* processor.rejectedJobs
    storedMatching,     \* chrome.storage.local matchingJobs
    storedRejected,     \* chrome.storage.local rejectedJobs
    clock,              \* new Date() of the collection entries
    reqs,               \* the requests sent, by request id
    cmds,               \* the startProcessing commands received
    lsWorks,            \* localStorage.setItem does not throw (quota not exceeded)
    loads,              \* page loads so far
    crossDelivered,     \* a response was delivered while another request waited
    ignoredReset,       \* the running session ignored a command with
                        \* resetProcessed = true when it had processed listings
    card,               \* what extractListingContent makes of the listing as
                        \* the page shows it now
    rpc,                \* position of processListing in its extraction loop
    content,            \* let content of processListing
    retryCount,         \* let retryCount of processListing
    retryDelay,         \* the delay awaited before the next attempt, in ms
    waits,              \* the delays awaited for this listing so far
    now,                \* the time in ms
    timers,             \* the times at which the timers set by the mutation
                        \* observer are due, in the order they were set
    scrollTimer,        \* let timeout of the debounced scroll listener: the
                        \* time it is due, or -1
    rescans,            \* calls of displayCachedResultsForVisibleListings
                        \* made by the timers of the mutation observer
    scrollRescans,      \* calls made by the scroll listener
    lastBatch,          \* the time of the last relevant mutation batch, or -1
    storageWorks,       \* chrome.storage.local.get and set succeed
    panel,              \* document.querySelector('.jobs-description'):
                        \* "absent", or what the container holds
    elapsed,            \* ms since the description wait began
    pollTimer,          \* the time setTimeout(checkDescription, 500) is due, or -1
    safetyTimer,        \* the time the safety timeout is due, or -1
    description,        \* let description of extractListingContent
    dpc,                \* position of extractListingContent and of the
                        \* processListing that called it
    returned,           \* the record extractListingContent returned, if any
    returnedAt,         \* the time it returned, or -1
    everPopulated,      \* the container has held text since the wait began
    loopPc,             \* position of processCurrentPage in its loop
    loopPage,           \* the page of the result list it works on
    loopIndex,          \* let i of the loop, counted from 1
    loopTotal,          \* totalJobsProcessedThisSession
    loopBudget,         \* maxJobsOnPage
    delayLeft,          \* ms until the timer of delayPromise is due, or -1
                        \* when no delayPromise was made yet
    delayFired,         \* delayPromise is resolved
    wakeLeft,           \* ms until the waits of the pagination are over
    companyElement,     \* let companyElement of extractListingContent
    company,            \* let company of extractListingContent
    companyDone,        \* "Get company name" has run
    jobAssistant,       \* window.jobAssistant: "none" or the script that set it
    assistants,         \* JobAssistant instances created in the page context
    adapters,           \* adapter instances created in the page context
    contentPc,          \* position of content.js
    modulePc,           \* position of initializeExtension of content-module.js
    adapterPc,          \* position of init of the adapter created last
    listeners,          \* listeners registered with chrome.runtime.onMessage
    sent,               \* startProcessing commands sent to the tab
    answers,            \* per command: who answers it
    removed,            \* history: the removals of the user in a results page
    shown,              \* the listing whose description .jobs-description shows (0: no container)
    active,             \* the listing activated last by a click (0: none)
    cur,                \* the listing processListing is at (0: none yet)
    ppc,                \* position of processListing / extractListingContent
    pwait,              \* ms until the pending timer of the wait or the poll fires
    psafety,            \* ms until the safety timeout fires (-1: not set)
    recorded,           \* per listing: the listing whose description was recorded
    elementJob,         \* per listing element: the job it shows
    badges,             \* per listing element: its .search-assist-badge children
    lastRender,         \* history: per element, isGoodFit of the last updateListingUI
    cachedResults       \* per job: the cached result ("none": none)

\* the results pages (yes_jobs.html, no_jobs.html) of the extension and the
\* title of a listing under extraction
resultsVars == <<resultsPage, storedJobs, jobList>>
titleVars == <<titleElement, title, titleDone>>
retryVars == <<card, rpc, content, retryCount, retryDelay, waits>>
observerVars == <<now, timers, scrollTimer, rescans, scrollRescans, lastBatch>>
stepVars == <<retryVars, observerVars>>
storageVars == <<storageWorks>>
descVars == <<panel, elapsed, pollTimer, safetyTimer, description, dpc, returned,
              returnedAt, everPopulated>>
delayVars == <<loopPc, loopPage, loopIndex, loopTotal, loopBudget, delayLeft,
               delayFired, wakeLeft>>
companyVars == <<companyElement, company, companyDone>>
entryVars == <<jobAssistant, assistants, adapters, contentPc, modulePc, adapterPc,
               listeners, sent, answers>>
removeVars == <<removed>>
panelVars == <<shown, active, cur, ppc, pwait, psafety, recorded>>
badgeVars == <<elementJob, badges, lastRender, cachedResults>>
extraVars == <<companyVars, entryVars, removeVars, panelVars, badgeVars>>
auxVars == <<resultsVars, titleVars, stepVars, storageVars, descVars, delayVars,
             extraVars>>

envVars == <<site, auxVars, page, storedMax, apiKey, lsWorks>>
sessVars == <<isProcessing, pc, owner, processedListings, total, maxJobs, listings,
              i, processedCount, failedCount, remaining, listingId, jobId, curReq, nextGen>>
cacheVars == <<responseCache, localStore, matchingJobs, rejectedJobs,
               storedMatching, storedRejected, clock>>
mainVars == <<site, page, storedMax, apiKey, lsWorks, sessVars, cacheVars, reqs, cmds,
              loads, crossDelivered, ignoredReset>>
retryRest == <<mainVars, resultsVars, titleVars, observerVars, storageVars, descVars,
               delayVars, extraVars>>
observerRest == <<mainVars, resultsVars, titleVars, retryVars, storageVars, descVars,
                  delayVars, extraVars>>
descRest == <<mainVars, resultsVars, titleVars, stepVars, storageVars, delayVars,
              extraVars>>
delayRest == <<mainVars, resultsVars, titleVars, stepVars, storageVars, descVars,
               extraVars>>
baseRest == <<mainVars, resultsVars, titleVars, stepVars, storageVars, descVars,
              delayVars>>
companyRest == <<baseRest, entryVars, removeVars, panelVars, badgeVars>>
entryRest == <<baseRest, companyVars, removeVars, panelVars, badgeVars>>
panelRest == <<baseRest, companyVars, entryVars, removeVars, badgeVars>>
badgeRest == <<baseRest, companyVars, entryVars, removeVars, panelVars>>
vars == <<site, auxVars, page, storedMax, apiKey, lsWorks, isProcessing, pc, owner, processedListings, total,
          maxJobs, listings, i, processedCount, failedCount, remaining, listingId, jobId, curReq,
          nextGen, responseCache, localStore, matchingJobs, rejectedJobs,
          storedMatching, storedRejected, clock, reqs, cmds, loads, crossDelivered,
          ignoredReset>>


(***************************************************************************)
(* AnalysisCache: JobProcessor.responseCache, localStorage and the two     *)
(* collections.  A cache state is a record                                 *)
(*   [cache, ls, mj, rj, sm, sr, clk]                                      *)
(* and the operations are functions from cache state to cache state.       *)
(***************************************************************************)

\* JSON.stringify of one object, as the members of the text: a property whose
\* value is undefined is left out.  isGoodFit is the one property of the
\* objects stored that can be undefined ("Unknown"); the others are strings.
StringifyObject(o) ==
    [f \in {g \in DOMAIN o : ~(g = "isGoodFit" /\ o[g] = "Unknown")} |-> o[f]]

\* JSON.parse of the members of one object; isGoodFit of an object without
\* that member reads as undefined
ParseObject(t) ==
    IF "isGoodFit" \in DOMAIN t THEN t ELSE [isGoodFit |-> "Unknown"] @@ t

\* JSON.stringify / JSON.parse of an object
JSONstringify(v) == <<"json", StringifyObject(v)>>
JSONparse(t) == ParseObject(t[2])

\* JSON.stringify of an array of objects that writes the first object only
JSONstringifyArray_FirstOnly(a) ==
    <<"json", [k \in 1..(IF Len(a) = 0 THEN 0 ELSE 1) |-> StringifyObject(a[k])]>>

\* JSON.stringify / JSON.parse of an array of objects
JSONstringifyArray(a) == <<"json", [k \in 1..Len(a) |-> StringifyObject(a[k])]>>
JSONparseArray(t) == [k \in 1..Len(t[2]) |-> ParseObject(t[2][k])]

\* JobProcessor.getCachedResult returns a result for the key (a verdict is
\* "Fit" for isGoodFit === true, "NoFit" for === false, "Unknown" otherwise)
HasCachedResult(cache, key) == key \in DOMAIN cache

\* the entry addToMatchingJobs / addToRejectedJobs builds
BasicInfo(key, result, ts) ==
    [key |-> key, id |-> KeyToId(key), isGoodFit |-> result.isGoodFit,
     timestamp |-> ts]

\* jobs.some(job => job.key === key || job.id === jobId)
Exists(jobs, key) ==
    \E k \in 1..Len(jobs) : jobs[k].key = key \/ jobs[k].id = KeyToId(key)

\* jobs.findIndex(job => job.key === key || job.id === jobId)
FindIndex(jobs, key) ==
    CHOOSE k \in 1..Len(jobs) :
        /\ jobs[k].key = key \/ jobs[k].id = KeyToId(key)
        /\ \A m \in 1..(k - 1) : ~(jobs[m].key = key \/ jobs[m].id = KeyToId(key))

\* addToMatchingJobs without the lookup of an existing entry
addToMatchingJobs_AlwaysAppend(jobs, key, result, ts) ==
    Append(jobs, BasicInfo(key, result, ts))

\* JobProcessor.addToMatchingJobs
addToMatchingJobs(jobs, key, result, ts) ==
    IF ~Exists(jobs, key)
    THEN Append(jobs, BasicInfo(key, result, ts))
    ELSE [jobs EXCEPT ![FindIndex(jobs, key)] = BasicInfo(key, result, ts)]

\* JobProcessor.addToRejectedJobs
addToRejectedJobs(jobs, key, result, ts) ==
    IF ~Exists(jobs, key)
    THEN Append(jobs, BasicInfo(key, result, ts))
    ELSE [jobs EXCEPT ![FindIndex(jobs, key)] = BasicInfo(key, result, ts)]

\* saveToCache with every verdict but true taken as a rejection
saveToCache_RejectsUnknown(cs, key, result, lsOk) ==
    LET c1 == [cs EXCEPT !.cache = (key :> result) @@ cs.cache,
                         !.ls = IF lsOk
                                THEN (key :> JSONstringify(result)) @@ cs.ls
                                ELSE cs.ls]
    IN  IF result.isGoodFit = "Fit"
        THEN LET mj == addToMatchingJobs(c1.mj, key, result, c1.clk + 1)
             IN  [c1 EXCEPT !.mj = mj, !.sm = JSONstringifyArray(mj), !.clk = c1.clk + 1]
        ELSE LET rj == addToRejectedJobs(c1.rj, key, result, c1.clk + 1)
             IN  [c1 EXCEPT !.rj = rj, !.sr = JSONstringifyArray(rj), !.clk = c1.clk + 1]

\* JobProcessor.saveToCache; lsOk: localStorage.setItem did not throw
saveToCache(cs, key, result, lsOk) ==
    LET c1 == [cs EXCEPT !.cache = (key :> result) @@ cs.cache,
                         !.ls = IF lsOk
                                THEN (key :> JSONstringify(result)) @@ cs.ls
                                ELSE cs.ls]
    IN  IF result.isGoodFit = "Fit"
        THEN LET mj == addToMatchingJobs(c1.mj, key, result, c1.clk + 1)
             IN  [c1 EXCEPT !.mj = mj, !.sm = JSONstringifyArray(mj), !.clk = c1.clk + 1]
        ELSE IF result.isGoodFit = "NoFit"
        THEN LET rj == addToRejectedJobs(c1.rj, key, result, c1.clk + 1)
             IN  [c1 EXCEPT !.rj = rj, !.sr = JSONstringifyArray(rj), !.clk = c1.clk + 1]
        ELSE c1

\* JobProcessor.processListing after the cache check missed and
\* sendMessageToBackground resolved with data: sendToBackground saves the
\* result of a successful response, processListing saves it again
processorProcessListing(cs, key, data, lsOk) ==
    IF data.success
    THEN LET resultToSave == [isGoodFit |-> data.isGoodFit]
         IN  saveToCache(saveToCache(cs, key, resultToSave, lsOk),
                         key, resultToSave, lsOk)
    ELSE cs

\* JobProcessor.loadCacheFromLocalStorage
loadCacheFromLocalStorage(ls) == [k \in DOMAIN ls |-> JSONparse(ls[k])]

\* JobProcessor.loadMatchingJobs / loadRejectedJobs
loadJobs(stored) == JSONparseArray(stored)

\* the cache state of the current variables
CacheState ==
    [cache |-> responseCache, ls |-> localStore, mj |-> matchingJobs,
     rj |-> rejectedJobs, sm |-> storedMatching, sr |-> storedRejected,
     clk |-> clock]

\* the variables take the cache state cs with nothing kept in memory when a
\* write of chrome.storage.local failed
SetCacheState_AbortsOnFailedWrite(cs) ==
    IF storageWorks
    THEN /\ responseCache' = cs.cache
         /\ localStore' = cs.ls
         /\ matchingJobs' = cs.mj
         /\ rejectedJobs' = cs.rj
         /\ storedMatching' = cs.sm
         /\ storedRejected' = cs.sr
         /\ clock' = cs.clk
    ELSE UNCHANGED <<responseCache, localStore, matchingJobs, rejectedJobs,
                     storedMatching, storedRejected, clock>>

\* the variables take the cache state cs; a chrome.storage.local.set that
\* fails (saveMatchingJobs, saveRejectedJobs) leaves the stored collection as
\* it was, and its promise resolves all the same
SetCacheState(cs) ==
    /\ responseCache' = cs.cache
    /\ localStore' = cs.ls
    /\ matchingJobs' = cs.mj
    /\ rejectedJobs' = cs.rj
    /\ storedMatching' = IF storageWorks THEN cs.sm ELSE storedMatching
    /\ storedRejected' = IF storageWorks THEN cs.sr ELSE storedRejected
    /\ clock' = cs.clk


(***************************************************************************)
(* RequestCorrelationChannel: JobProcessor.sendMessageToBackground.        *)
(* A request record holds the page side of one request (the listener, the  *)
(* 15 s timer, the promise) and the analyzer side (bg) with the response   *)
(* message in flight (resp); elem and sess record the listing element and  *)
(* the command of the session that sent it.                                *)
(***************************************************************************)
NoData == [success |-> FALSE, isGoodFit |-> "Unknown", err |-> "none"]

\* resolve({success: false, error: 'Request timed out ...', timeoutOccurred: true})
TimeoutFailure == [success |-> FALSE, isGoodFit |-> "Unknown", err |-> "timeout"]

\* resolve({success: false, error: errorMessage})
TransportFailure == [success |-> FALSE, isGoodFit |-> "Unknown", err |-> "transport"]

\* processJobListing: the data of the response message after analyzeWithAPI returned
SuccessData(v) == [success |-> TRUE, isGoodFit |-> v, err |-> "none"]

\* processJobListing: the data of the response message after analyzeWithAPI threw
ErrorData(e) == [success |-> FALSE, isGoodFit |-> "NoFit", err |-> e]

\* sendMessageToBackground up to chrome.runtime.sendMessage: the new request
NewRequest(id, e, c) ==
    [jobId |-> id, elem |-> e, sess |-> c, listener |-> TRUE, timer |-> "armed",
     settled |-> FALSE, outcome |-> NoData, bg |-> "sent", resp |-> NoData]

\* clearTimeout(timeoutId): the timer will not fire (any more)
clearTimeout(t) == "off"

\* the promise's resolve: the first call settles it, a later call is a no-op
Resolve(q, data) ==
    IF q.settled THEN q ELSE [q EXCEPT !.settled = TRUE, !.outcome = data]

\* the timeout callback without removeListener
TimeoutHandler_KeepsListener(q) ==
    Resolve([q EXCEPT !.timer = "off"], TimeoutFailure)

\* the setTimeout callback of sendMessageToBackground
TimeoutHandler(q) ==
    Resolve([q EXCEPT !.timer = "off", !.listener = FALSE], TimeoutFailure)

\* messageListener without the comparison of responseToId
MessageListener_AnyId(q, rid, to, data) ==
    Resolve([q EXCEPT !.timer = clearTimeout(q.timer), !.listener = FALSE], data)

\* messageListener of the request with id rid, called with a message
\* {responseToId: to, data: data}
MessageListener(q, rid, to, data) ==
    IF to = rid
    THEN Resolve([q EXCEPT !.timer = clearTimeout(q.timer), !.listener = FALSE], data)
    ELSE q

\* the callback of chrome.runtime.sendMessage without clearTimeout(timeoutId)
SendMessageCallback_KeepsTimer(q, lastError) ==
    IF lastError
    THEN Resolve([q EXCEPT !.listener = FALSE], TransportFailure)
    ELSE q

\* the callback of chrome.runtime.sendMessage; the background never answers a
\* request that carries a requestId through sendResponse, so directResponse is
\* undefined and only chrome.runtime.lastError makes the callback act
SendMessageCallback(q, lastError) ==
    IF lastError
    THEN Resolve([q EXCEPT !.timer = clearTimeout(q.timer), !.listener = FALSE],
                 TransportFailure)
    ELSE q

(***************************************************************************)
(* The command surface: the startProcessing branch of the adapter's        *)
(* message listener.                                                       *)
(***************************************************************************)
\* the closure of one startProcessing message
NewCommand == [timer |-> "armed", responseHandled |-> FALSE, responses |-> 0]

\* the safetyTimeout callback
SafetyTimeout(c) ==
    IF ~c.responseHandled
    THEN [c EXCEPT !.timer = "off", !.responseHandled = TRUE,
                   !.responses = c.responses + 1]
    ELSE [c EXCEPT !.timer = "off"]

\* the .then callback without the responseHandled check
StartThen_Unguarded(c) ==
    [c EXCEPT !.timer = clearTimeout(c.timer), !.responseHandled = TRUE,
              !.responses = c.responses + 1]

\* .then(() => ...) of this.startProcessing(resetProcessed)
StartThen(c) ==
    IF ~c.responseHandled
    THEN [c EXCEPT !.timer = clearTimeout(c.timer), !.responseHandled = TRUE,
                   !.responses = c.responses + 1]
    ELSE [c EXCEPT !.timer = clearTimeout(c.timer)]


(***************************************************************************)
(* Initial state: the page context after init, nothing processed, nothing  *)
(* stored.                                                                 *)
(***************************************************************************)
\* let titleElement = null
NoTitleElement == [kind |-> "none", text |-> << >>]

\* processListing is not running
RetryIdle ==
    /\ card = "complete"
    /\ rpc = "idle"
    /\ content = "null"
    /\ retryCount = 0
    /\ retryDelay = 0
    /\ waits = << >>

\* no mutation seen, no timer set
ObserverIdle ==
    /\ now = 0
    /\ timers = << >>
    /\ scrollTimer = -1
    /\ rescans = 0
    /\ scrollRescans = 0
    /\ lastBatch = -1

\* extractListingContent has not reached the description
DescriptionIdle ==
    /\ panel = "absent"
    /\ elapsed = 0
    /\ pollTimer = -1
    /\ safetyTimer = -1
    /\ description = ""
    /\ dpc = "idle"
    /\ returned = << >>
    /\ returnedAt = -1
    /\ everPopulated = FALSE

\* processCurrentPage was not called
LoopIdle ==
    /\ loopPc = "idle"
    /\ loopPage = 1
    /\ loopIndex = 1
    /\ loopTotal = 0
    /\ loopBudget = 0
    /\ delayLeft = -1
    /\ delayFired = FALSE
    /\ wakeLeft = 0

\* extractListingContent has not reached the company; the element is set
\* by the specification
CompanyIdle ==
    /\ company = << >>
    /\ companyDone = FALSE

\* both entry scripts have run, content.js first, and init of its adapter has
\* registered the listener
EntryDone ==
    /\ jobAssistant = "content"
    /\ assistants = 1
    /\ adapters = 1
    /\ contentPc = "done"
    /\ modulePc = "done"
    /\ adapterPc = "listening"
    /\ listeners = {"bridge", "adapter"}
    /\ sent = 0
    /\ answers = << >>

\* the fields of the adapter and of the processor after their constructors
\* no listing was activated, the detail panel has no description container
PanelIdle ==
    /\ shown = 0
    /\ active = 0
    /\ cur = 0
    /\ ppc = "idle"
    /\ pwait = 0
    /\ psafety = -1
    /\ recorded = << >>

\* listing elements in the page
MaxElements == 2

Elements == 1..MaxElements

\* the listing elements as the page built them, nothing rendered or cached
BadgesIdle ==
    /\ elementJob = [e \in Elements |-> e]
    /\ badges = [e \in Elements |-> << >>]
    /\ lastRender = [e \in Elements |-> "none"]
    /\ cachedResults = [j \in Elements |-> "none"]

FreshAdapter ==
    /\ CompanyIdle
    /\ PanelIdle
    /\ BadgesIdle
    /\ removed = {}
    /\ RetryIdle
    /\ ObserverIdle
    /\ DescriptionIdle
    /\ LoopIdle
    /\ storageWorks = TRUE
    /\ page = 1
    /\ lsWorks = TRUE
    /\ resultsPage = "none"
    /\ storedJobs = JSONstringifyArray(<< >>)
    /\ jobList = << >>
    /\ title = << >>
    /\ titleDone = FALSE
    /\ isProcessing = FALSE
    /\ pc = "idle"
    /\ owner = 0
    /\ processedListings = {}
    /\ total = 0
    /\ maxJobs = 0
    /\ listings = << >>
    /\ i = 0
    /\ processedCount = 0
    /\ failedCount = 0
    /\ remaining = 0
    /\ listingId = 0
    /\ jobId = 0
    /\ curReq = 0
    /\ nextGen = 0
    /\ responseCache = << >>
    /\ localStore = << >>
    /\ clock = 0
    /\ reqs = << >>
    /\ cmds = << >>
    /\ loads = 0
    /\ crossDelivered = FALSE
    /\ ignoredReset = FALSE

\* the page context after init of the adapter
FreshContext ==
    /\ EntryDone
    /\ FreshAdapter

\* let companyElement = null
NoCompanyElement == [found |-> FALSE, text |-> << >>]

\* nothing stored in the two collections
Fresh ==
    /\ FreshContext
    /\ companyElement = NoCompanyElement
    /\ titleElement = NoTitleElement
    /\ matchingJobs = << >>
    /\ rejectedJobs = << >>
    /\ storedMatching = JSONstringifyArray(<< >>)
    /\ storedRejected = JSONstringifyArray(<< >>)

\* result list 1, any stored budget up to MaxBudget or none
Init ==
    /\ site = 1
    /\ storedMax \in 0..MaxBudget
    /\ apiKey \in BOOLEAN
    /\ Fresh

\* result list 2, the stored budget one less than the listings of its first page
InitBudget ==
    /\ site = 2
    /\ storedMax = Len(Pages[1]) - 1
    /\ apiKey \in BOOLEAN
    /\ Fresh

(***************************************************************************)
(* The environment: the popup, the options page, the user.                 *)
(***************************************************************************)
\* popup: chrome.storage.local.set({ maxJobsToProcess: maxJobs })
SetMaxJobs(n) ==
    /\ pc = "idle"
    /\ n # storedMax
    /\ storedMax' = n
    /\ UNCHANGED <<site, auxVars, page, apiKey, lsWorks, sessVars, cacheVars, reqs, cmds, loads, crossDelivered,
                   ignoredReset>>

\* the user opens another page of the site while no session runs
UserNavigate(p) ==
    /\ pc = "idle"
    /\ p # page
    /\ page' = p
    /\ UNCHANGED <<site, auxVars, storedMax, apiKey, lsWorks, sessVars, cacheVars, reqs, cmds, loads, crossDelivered,
                   ignoredReset>>

(***************************************************************************)
(* The session: startProcessing and processCurrentPage.                    *)
(***************************************************************************)
\* the return of startProcessing without the finally block
SessionEnd_NoFinally ==
    /\ isProcessing' = isProcessing
    /\ pc' = "idle"
    /\ owner' = owner
    /\ listings' = << >>
    /\ i' = 0
    /\ processedCount' = 0
    /\ failedCount' = 0
    /\ remaining' = 0
    /\ listingId' = 0
    /\ jobId' = 0
    /\ curReq' = 0
    /\ cmds' = [cmds EXCEPT ![owner] = StartThen(cmds[owner])]

\* startProcessing returns (finally: isProcessing = false) and the listener's
\* .then answers the command
SessionEnd ==
    /\ isProcessing' = FALSE
    /\ pc' = "idle"
    /\ owner' = 0
    /\ listings' = << >>
    /\ i' = 0
    /\ processedCount' = 0
    /\ failedCount' = 0
    /\ remaining' = 0
    /\ listingId' = 0
    /\ jobId' = 0
    /\ curReq' = 0
    /\ cmds' = [cmds EXCEPT ![owner] = StartThen(cmds[owner])]

\* processCurrentPage that allows each page the whole budget
EnterPage_FreshBudget(p, tot) ==
    IF Len(findJobListings(p)) = 0 \/ maxJobs - tot <= 0
    THEN SessionEnd
    ELSE /\ listings' = findJobListings(p)
         /\ remaining' = maxJobs
         /\ processedCount' = 0
         /\ failedCount' = 0
         /\ i' = 1
         /\ pc' = "loop"
         /\ UNCHANGED <<isProcessing, owner, listingId, jobId, curReq, cmds>>

\* processCurrentPage(maxJobs) from its first line to the loop, on page p with
\* the counter at tot
EnterPage(p, tot) ==
    IF Len(findJobListings(p)) = 0 \/ maxJobs - tot <= 0
    THEN SessionEnd
    ELSE /\ listings' = findJobListings(p)
         /\ remaining' = maxJobs - tot
         /\ processedCount' = 0
         /\ failedCount' = 0
         /\ i' = 1
         /\ pc' = "loop"
         /\ UNCHANGED <<isProcessing, owner, listingId, jobId, curReq, cmds>>

\* startProcessing without the isProcessing check
ReceiveStart_NoRunningCheck(reset) ==
    /\ Len(cmds) < MaxCmds
    /\ cmds' = Append(cmds, NewCommand)
    /\ isProcessing' = TRUE
    /\ owner' = Len(cmds) + 1
    /\ pc' = "readBudget"
    /\ maxJobs' = 0
    /\ processedListings' = IF reset THEN {} ELSE processedListings
    /\ total' = IF reset THEN 0 ELSE total
    /\ UNCHANGED <<listings, i, processedCount, failedCount, remaining, listingId, jobId,
                   curReq, nextGen>>
    /\ ignoredReset' = FALSE
    /\ UNCHANGED <<envVars, cacheVars, reqs, loads, crossDelivered>>

\* the message listener on a startProcessing message, and startProcessing up to
\* its first await
ReceiveStart(reset) ==
    /\ Len(cmds) < MaxCmds
    /\ IF isProcessing
       THEN /\ cmds' = Append(cmds, StartThen(NewCommand))
            /\ ignoredReset' = (ignoredReset \/ (reset /\ processedListings # {}))
            /\ UNCHANGED <<sessVars>>
       ELSE /\ cmds' = Append(cmds, NewCommand)
            /\ isProcessing' = TRUE
            /\ owner' = Len(cmds) + 1
            /\ pc' = "readBudget"
            /\ maxJobs' = 0
            /\ processedListings' = IF reset THEN {} ELSE processedListings
            /\ total' = IF reset THEN 0 ELSE total
            /\ ignoredReset' = FALSE
            /\ UNCHANGED <<listings, i, processedCount, failedCount, remaining, listingId, jobId,
                           curReq, nextGen>>
    /\ UNCHANGED <<envVars, cacheVars, reqs, loads, crossDelivered>>

\* the safety timer of a command fires after 1 s
SafetyTimeoutFires(c) ==
    /\ c \in 1..Len(cmds)
    /\ cmds[c].timer = "armed"
    /\ cmds' = [cmds EXCEPT ![c] = SafetyTimeout(cmds[c])]
    /\ UNCHANGED <<envVars, sessVars, cacheVars, reqs, loads, crossDelivered,
                   ignoredReset>>

\* startProcessing: chrome.storage.local.get(['maxJobsToProcess']) answered
ReadBudget ==
    /\ pc = "readBudget"
    /\ maxJobs' = IF storedMax # 0 THEN storedMax ELSE DefaultMaxJobs
    /\ pc' = "waitListings"
    /\ UNCHANGED <<isProcessing, owner, processedListings, total, listings, i,
                   processedCount, failedCount, remaining, listingId, jobId, curReq, nextGen>>
    /\ UNCHANGED <<envVars, cacheVars, reqs, cmds, loads, crossDelivered,
                   ignoredReset>>

\* startProcessing: waitForJobListings returned; without listings the session
\* returns, with listings the counter is reset and processCurrentPage starts
WaitForJobListings ==
    /\ pc = "waitListings"
    /\ IF Len(findJobListings(page)) = 0
       THEN /\ SessionEnd
            /\ total' = total
       ELSE /\ total' = 0
            /\ EnterPage(page, 0)
    /\ UNCHANGED <<processedListings, maxJobs, nextGen>>
    /\ UNCHANGED <<envVars, cacheVars, reqs, loads, crossDelivered,
                   ignoredReset>>

\* the end of one pass of the loop body that stays at the listing when
\* processListing returned false
IterationEnd_RepeatsListing(result) ==
    /\ processedCount' = IF result THEN processedCount + 1 ELSE processedCount
    /\ failedCount' = failedCount
    /\ total' = IF result THEN total + 1 ELSE total
    /\ i' = IF result THEN i + 1 ELSE i
    /\ pc' = "loop"
    /\ listingId' = 0
    /\ jobId' = 0
    /\ curReq' = 0
    /\ UNCHANGED <<isProcessing, owner, maxJobs, listings, remaining>>

\* a loop body that counts every processed listing in the session counter,
\* whatever processListing returned
IterationEnd_CountsEveryReturn(result) ==
    /\ processedCount' = IF result THEN processedCount + 1 ELSE processedCount
    /\ failedCount' = failedCount
    /\ total' = total + 1
    /\ i' = i + 1
    /\ pc' = "loop"
    /\ listingId' = 0
    /\ jobId' = 0
    /\ curReq' = 0
    /\ UNCHANGED <<isProcessing, owner, maxJobs, listings, remaining>>

\* the end of one pass of the loop body after this.processListing(listing)
\* returned result.  The catch block, which alone counts failedCount and takes
\* the 5 s pause, runs when processListing throws; it does not throw, whatever
\* the extraction or the dispatch ends with: every failure inside it is caught
\* and makes it return false.
IterationEnd(result) ==
    /\ processedCount' = IF result THEN processedCount + 1 ELSE processedCount
    /\ failedCount' = failedCount
    /\ total' = IF result THEN total + 1 ELSE total
    /\ i' = i + 1
    /\ pc' = "loop"
    /\ listingId' = 0
    /\ jobId' = 0
    /\ curReq' = 0
    /\ UNCHANGED <<isProcessing, owner, maxJobs, listings, remaining>>

\* processCurrentPage: the loop head, the id of the listing, the skip of a
\* processed listing, and processListing up to its first wait
LoopStep ==
    /\ pc = "loop"
    /\ IF i > Len(listings) \/ total >= maxJobs \/ processedCount >= remaining
       THEN /\ pc' = "pageEnd"
            /\ UNCHANGED <<isProcessing, owner, processedListings, total, maxJobs,
                           listings, i, processedCount, failedCount, remaining, listingId, jobId,
                           curReq, nextGen>>
       ELSE /\ nextGen + 2 * UsesGen(listings[i]) <= MaxGen
            /\ nextGen' = nextGen + UsesGen(listings[i])
            /\ LET id == getListingId(listings[i], nextGen)
               IN  IF id \in processedListings
                   THEN /\ i' = i + 1
                        /\ UNCHANGED <<isProcessing, pc, owner, processedListings,
                                       total, maxJobs, listings, processedCount, failedCount,
                                       remaining, listingId, jobId, curReq>>
                   ELSE \E inDom \in BOOLEAN :
                            IF inDom
                            THEN /\ pc' = "extract"
                                 /\ listingId' = id
                                 /\ UNCHANGED <<isProcessing, owner, processedListings,
                                                total, maxJobs, listings, i,
                                                processedCount, failedCount, remaining, jobId,
                                                curReq>>
                            ELSE /\ IterationEnd(FALSE)
                                 /\ UNCHANGED processedListings
    /\ UNCHANGED <<envVars, cacheVars, reqs, cmds, loads, crossDelivered,
                   ignoredReset>>


\* adapter.processListing that does not await processor.processListing: the
\* loop goes on to the next listing as soon as the request is sent
ExtractStep_NoAwait(ok) ==
    /\ pc = "extract"
    /\ IF ~ok
       THEN /\ IterationEnd(FALSE)
            /\ UNCHANGED <<processedListings, nextGen, reqs>>
       ELSE /\ nextGen' = nextGen + UsesGen(listings[i])
            /\ LET id == getListingId(listings[i], nextGen)
               IN  IF HasCachedResult(responseCache, CacheKey(id))
                   THEN /\ \E inDom \in BOOLEAN :
                               /\ IterationEnd(inDom)
                               /\ processedListings' =
                                      IF inDom THEN processedListings \cup {listingId}
                                      ELSE processedListings
                        /\ UNCHANGED reqs
                   ELSE /\ Len(reqs) < MaxReq
                        /\ reqs' = Append(reqs, NewRequest(id, listings[i], owner))
                        /\ IterationEnd(FALSE)
                        /\ UNCHANGED processedListings
    /\ UNCHANGED <<envVars, cacheVars, cmds, loads, crossDelivered,
                   ignoredReset>>

\* adapter.processListing from the extraction to the dispatch:
\* extractListingContent (ok: a complete record; otherwise title or company
\* stayed empty through the retries), then processor.processListing up to
\* chrome.runtime.sendMessage, or to its return on a cache hit
ExtractStep(ok) ==
    /\ pc = "extract"
    /\ IF ~ok
       THEN /\ IterationEnd(FALSE)
            /\ UNCHANGED <<processedListings, nextGen, reqs>>
       ELSE /\ nextGen' = nextGen + UsesGen(listings[i])
            /\ LET id == getListingId(listings[i], nextGen)
               IN  IF HasCachedResult(responseCache, CacheKey(id))
                   THEN /\ \E inDom \in BOOLEAN :
                               /\ IterationEnd(inDom)
                               /\ processedListings' =
                                      IF inDom THEN processedListings \cup {listingId}
                                      ELSE processedListings
                        /\ UNCHANGED reqs
                   ELSE /\ Len(reqs) < MaxReq
                        /\ reqs' = Append(reqs, NewRequest(id, listings[i], owner))
                        /\ curReq' = Len(reqs) + 1
                        /\ jobId' = id
                        /\ pc' = "await"
                        /\ UNCHANGED <<isProcessing, owner, processedListings, total,
                                       maxJobs, listings, i, processedCount, failedCount, remaining,
                                       listingId>>
    /\ UNCHANGED <<envVars, cacheVars, cmds, loads, crossDelivered,
                   ignoredReset>>

\* a processor that marks the listing as processed whatever the request
\* ended with
Continue_MarksFailed(data) ==
    IF data.success
    THEN \E inDom \in BOOLEAN :
            /\ SetCacheState(processorProcessListing(CacheState, CacheKey(jobId),
                                                     data, lsWorks))
            /\ processedListings' =
                   processedListings \cup {jobId}
                       \cup (IF inDom THEN {listingId} ELSE {})
            /\ IterationEnd(inDom)
    ELSE /\ IterationEnd(FALSE)
         /\ processedListings' = processedListings \cup {jobId}
         /\ UNCHANGED cacheVars

\* what follows the await of sendMessageToBackground in sendToBackground,
\* processor.processListing, adapter.processListing and the loop body, when
\* the promise resolves with data
Continue(data) ==
    IF data.success
    THEN \E inDom \in BOOLEAN :
            /\ SetCacheState(processorProcessListing(CacheState, CacheKey(jobId),
                                                     data, lsWorks))
            /\ processedListings' =
                   processedListings \cup {jobId}
                       \cup (IF inDom THEN {listingId} ELSE {})
            /\ IterationEnd(inDom)
    ELSE /\ IterationEnd(FALSE)
         /\ UNCHANGED <<processedListings, cacheVars>>

\* the page side of request r changes from reqs to rs: the session goes on when
\* that resolved the promise it awaits
PageSide(r, rs) ==
    /\ reqs' = rs
    /\ IF pc = "await" /\ curReq \in 1..Len(reqs)
          /\ ~reqs[curReq].settled /\ rs[curReq].settled
       THEN Continue(rs[curReq].outcome)
       ELSE UNCHANGED <<isProcessing, pc, owner, processedListings, total, maxJobs,
                        listings, i, processedCount, failedCount, remaining, listingId, jobId,
                        curReq, cacheVars>>
    /\ UNCHANGED <<envVars, nextGen, cmds, loads>>

\* the 15 s timer of request r fires
RequestTimeout(r) ==
    /\ r \in 1..Len(reqs)
    /\ reqs[r].timer = "armed"
    /\ PageSide(r, [reqs EXCEPT ![r] = TimeoutHandler(reqs[r])])
    /\ UNCHANGED <<crossDelivered, ignoredReset>>

\* the callback of chrome.runtime.sendMessage runs for request r, which still
\* waits (on a resolved request the callback changes nothing)
RequestCallback(r, lastError) ==
    /\ r \in 1..Len(reqs)
    /\ ~reqs[r].settled
    /\ PageSide(r, [reqs EXCEPT ![r] = SendMessageCallback(reqs[r], lastError)])
    /\ UNCHANGED <<crossDelivered, ignoredReset>>

\* the response message of request r arrives in the page: every registered
\* messageListener is called with it
DeliverResponse(r) ==
    /\ r \in 1..Len(reqs)
    /\ reqs[r].bg = "replied"
    /\ PageSide(r, [k \in 1..Len(reqs) |->
                       LET q == IF k = r THEN [reqs[k] EXCEPT !.bg = "done", !.resp = NoData]
                                ELSE reqs[k]
                       IN  IF reqs[k].listener
                           THEN MessageListener(q, k, r, reqs[r].resp)
                           ELSE q])
    /\ crossDelivered' =
           (crossDelivered \/ \E k \in 1..Len(reqs) : k # r /\ reqs[k].listener)
    /\ UNCHANGED ignoredReset

(***************************************************************************)
(* The analyzer: background.js.                                            *)
(***************************************************************************)
\* onMessage 'analyzeListing' and processJobListing: analyzeWithAPI throws
\* when the API key is missing, otherwise it returns a verdict or throws on a
\* failed API call; the response message is sent either way
BgProcess(r, data) ==
    /\ r \in 1..Len(reqs)
    /\ reqs[r].bg = "sent"
    /\ reqs' = [reqs EXCEPT ![r] =
                   [@ EXCEPT !.bg = "replied",
                             !.resp = IF apiKey THEN data ELSE ErrorData("config")]]
    /\ UNCHANGED <<envVars, sessVars, cacheVars, cmds, loads, crossDelivered,
                   ignoredReset>>

\* processCurrentPage without the check of the remaining budget before the
\* next page
PageEnd_AlwaysPaginates ==
    /\ pc = "pageEnd"
    /\ IF findNextPageButton(page)
       THEN /\ page' = page + 1
            /\ EnterPage(page + 1, total)
       ELSE /\ page' = page
            /\ SessionEnd
    /\ UNCHANGED <<site, auxVars, storedMax, apiKey, lsWorks, processedListings, total, maxJobs, nextGen>>
    /\ UNCHANGED <<cacheVars, reqs, loads, crossDelivered, ignoredReset>>

\* the end of processCurrentPage: the next page when budget remains and there
\* is a next-page control, otherwise the return to startProcessing
PageEnd ==
    /\ pc = "pageEnd"
    /\ IF maxJobs - total > 0 /\ findNextPageButton(page)
       THEN /\ page' = page + 1
            /\ EnterPage(page + 1, total)
       ELSE /\ page' = page
            /\ SessionEnd
    /\ UNCHANGED <<site, auxVars, storedMax, apiKey, lsWorks, processedListings, total, maxJobs, nextGen>>
    /\ UNCHANGED <<cacheVars, reqs, loads, crossDelivered,
                   ignoredReset>>

\* the tab loads the page again while no session runs and no request waits:
\* a new adapter and a new JobProcessor, whose init reads the localStorage
\* cache and the two collections
Reload ==
    /\ pc = "idle"
    /\ \A k \in 1..Len(reqs) : reqs[k].settled /\ reqs[k].bg = "done"
    /\ \A k \in 1..Len(cmds) : cmds[k].timer = "off"
    /\ loads < MaxLoads
    /\ loads' = loads + 1
    /\ processedListings' = {}
    /\ total' = 0
    /\ responseCache' = loadCacheFromLocalStorage(localStore)
    /\ matchingJobs' = IF storageWorks THEN loadJobs(storedMatching) ELSE << >>
    /\ rejectedJobs' = IF storageWorks THEN loadJobs(storedRejected) ELSE << >>
    /\ UNCHANGED <<isProcessing, pc, owner, maxJobs, listings, i, processedCount, failedCount,
                   remaining, listingId, jobId, curReq, nextGen>>
    /\ UNCHANGED <<envVars, localStore, storedMatching, storedRejected, clock,
                   reqs, cmds, crossDelivered,
                   ignoredReset>>

Responses == {SuccessData("Fit"), SuccessData("NoFit"), ErrorData("api")}

\* what sendMessageToBackground can resolve with
Outcomes == Responses \cup {ErrorData("config"), TimeoutFailure, TransportFailure}

\* the job ids the DOM of the site carries
JobIds ==
    UNION {{DomId(Pages[p][k]) : k \in 1..Len(Pages[p])} : p \in 1..NumPages} \ {0}

\* localStorage of the site's origin fills up (setItem throws) or is freed
SetLsWorks(b) ==
    /\ pc = "idle"
    /\ b # lsWorks
    /\ lsWorks' = b
    /\ UNCHANGED <<site, auxVars, page, storedMax, apiKey, sessVars, cacheVars, reqs, cmds, loads,
                   crossDelivered,
                   ignoredReset>>

\* JobProcessor.processListing(content, cacheKey) for a listing with job id
\* id, as one step: the cache check, and on a miss the request resolved with
\* data and the saves
ProcessListing(id, data) ==
    /\ pc = "idle"
    /\ IF HasCachedResult(responseCache, CacheKey(id))
       THEN UNCHANGED <<processedListings, cacheVars>>
       ELSE /\ SetCacheState(processorProcessListing(CacheState, CacheKey(id),
                                                     data, lsWorks))
            /\ processedListings' =
                   IF data.success THEN processedListings \cup {id}
                   ELSE processedListings
    /\ UNCHANGED <<isProcessing, pc, owner, total, maxJobs, listings, i,
                   processedCount, failedCount, remaining, listingId, jobId, curReq, nextGen>>
    /\ UNCHANGED <<envVars, reqs, cmds, loads, crossDelivered,
                   ignoredReset>>

Next ==
    \/ \E n \in 1..MaxBudget : SetMaxJobs(n)
    \/ \E p \in 0..NumPages : UserNavigate(p)
    \/ \E reset \in BOOLEAN : ReceiveStart(reset)
    \/ \E c \in 1..MaxCmds : SafetyTimeoutFires(c)
    \/ ReadBudget
    \/ WaitForJobListings
    \/ LoopStep
    \/ \E ok \in BOOLEAN : ExtractStep(ok)
    \/ \E r \in 1..MaxReq : RequestTimeout(r)
    \/ \E r \in 1..MaxReq, lastError \in BOOLEAN : RequestCallback(r, lastError)
    \/ \E r \in 1..MaxReq : DeliverResponse(r)
    \/ \E r \in 1..MaxReq : \E data \in Responses : BgProcess(r, data)
    \/ PageEnd

Spec == Init /\ [][Next]_vars

\* the page context on result list 2 with a budget smaller than its first page
SpecBudget == InitBudget /\ [][Next]_vars

\* the JobProcessor alone, over page loads and localStorage failures
NextCache ==
    \/ \E id \in JobIds : \E data \in Outcomes : ProcessListing(id, data)
    \/ \E b \in BOOLEAN : SetLsWorks(b)
    \/ Reload

SpecCache == Init /\ [][NextCache]_vars

(***************************************************************************)
(* Properties.                                                             *)
(***************************************************************************)
ReqIds == 1..Len(reqs)
CmdIds == 1..Len(cmds)

\* the ids of the entries of a collection
Ids(jobs) == {jobs[k].id : k \in 1..Len(jobs)}

\* every id occurs at most once in the collection
UniqueIds(jobs) ==
    \A a, b \in 1..Len(jobs) : jobs[a].id = jobs[b].id => a = b

\* new is old after at most one id was upserted with the timestamp ts: either
\* nothing changed, or one entry with an id not in old was added at the end, or
\* one entry was replaced, in place, by an entry of the same id written at ts
Upserted(old, new, ts) ==
    \/ new = old
    \/ /\ Len(new) = Len(old) + 1
       /\ SubSeq(new, 1, Len(old)) = old
       /\ new[Len(new)].id \notin Ids(old)
    \/ /\ Len(new) = Len(old)
       /\ \E k \in 1..Len(old) :
              /\ new[k].id = old[k].id
              /\ new[k].timestamp = ts
              /\ \A m \in 1..Len(old) : m # k => new[m] = old[m]

\* C1: once the budget of a session has been read, the counter
\* totalJobsProcessedThisSession is at most the budget, in every state of the
\* session and after its completion.
C1_BudgetInvariant == maxJobs # 0 => total <= maxJobs

\* C2: a listing element whose evaluation succeeded (and was stored) in one
\* session is not sent to the analyzer again by a later session.
C2_NoSecondDispatch ==
    \A r1, r2 \in ReqIds :
        ~ /\ reqs[r1].sess < reqs[r2].sess
          /\ reqs[r1].elem = reqs[r2].elem
          /\ reqs[r1].settled
          /\ reqs[r1].outcome.success

\* C3: a request is resolved at most once.  In every step, a resolved request
\* has no listener registered and no timer armed; once resolved it stays
\* resolved with the same outcome (a timeout failure stays a timeout failure),
\* and any later event of that request leaves the session, the cache and the
\* collections unchanged.
C3_ResolvedAtMostOnce ==
    [][\A r \in ReqIds :
          /\ reqs'[r].settled =>
                 ~reqs'[r].listener /\ reqs'[r].timer = "off"
          /\ reqs[r].settled =>
                 /\ reqs'[r].settled
                 /\ reqs'[r].outcome = reqs[r].outcome
                 /\ reqs'[r] # reqs[r] => UNCHANGED <<sessVars, cacheVars>>]_vars

\* C3 witness: a request timed out and its response, arriving afterwards, was
\* delivered to the page.
C3_LateResponseDiscarded ==
    \E r \in ReqIds :
        /\ reqs[r].settled
        /\ reqs[r].outcome = TimeoutFailure
        /\ reqs[r].bg = "done"

\* C4: when the response message tagged r is delivered, the request r, if it
\* still waits, is resolved with the data of that message, and every other
\* request stays as it is: registered and unresolved if it was.
C4_CorrelationById ==
    [][\A r \in ReqIds :
          (reqs[r].bg = "replied" /\ reqs'[r].bg = "done") =>
              /\ reqs[r].listener =>
                     reqs'[r].settled /\ reqs'[r].outcome = reqs[r].resp
              /\ \A k \in ReqIds : k # r => reqs'[k] = reqs[k]]_vars

\* C4 witness: a response was delivered while a request with another id was
\* registered, and a request is still registered and unresolved.
C4_OtherIdDelivered ==
    /\ crossDelivered
    /\ \E k \in ReqIds : reqs[k].listener /\ ~reqs[k].settled

\* C5: a startProcessing command received while a session runs changes nothing
\* of the session: not isProcessing, not the command that owns the session,
\* not processedListings, the counter, the budget or the position in the page.
C5_StartWhileRunningIgnored ==
    [][(isProcessing /\ Len(cmds') > Len(cmds)) => UNCHANGED sessVars]_vars

\* C5 witness: a command with resetProcessed = true arrived during the running
\* session, which had processed listings, and it still has them.
C5_ResetIgnoredWhileRunning ==
    /\ isProcessing
    /\ ignoredReset
    /\ processedListings # {}
    /\ \E c \in CmdIds : c > owner

\* C6: no two requests for the same listing id are live (sent and not yet
\* finished by the analyzer) at the same time.
C6_OneLiveEvaluation ==
    \A r1, r2 \in ReqIds :
        (r1 # r2 /\ reqs[r1].jobId = reqs[r2].jobId) =>
            ~(reqs[r1].bg = "sent" /\ reqs[r2].bg = "sent")

\* C7: no id is in the matching and in the rejected collection at once.
C7_CollectionsDisjoint == Ids(matchingJobs) \cap Ids(rejectedJobs) = {}

\* C8: in every step each collection keeps every id at most once, and changes
\* only by an upsert: an entry of a present id is replaced in place by the
\* entry just written and the length stays, an entry of a new id is added at
\* the end and the length grows by one.
C8_UpsertUnique ==
    [][/\ UniqueIds(matchingJobs') /\ UniqueIds(rejectedJobs')
       /\ Upserted(matchingJobs, matchingJobs', clock')
       /\ Upserted(rejectedJobs, rejectedJobs', clock')]_vars

\* C8 witness: an entry of the matching collection was replaced after a later
\* entry had been added.
C8_EntryReplaced ==
    \E a, b \in 1..Len(matchingJobs) :
        a < b /\ matchingJobs[a].timestamp > matchingJobs[b].timestamp

\* C9: a command is never answered twice; it has exactly one response once
\* its safety timer has fired or been cleared, and once its startProcessing
\* call has returned.
C9_ExactlyOneResponse ==
    \A c \in CmdIds :
        /\ cmds[c].responses <= 1
        /\ cmds[c].timer = "off" => cmds[c].responses = 1
        /\ ~(isProcessing /\ owner = c) => cmds[c].responses = 1

\* C9 witness: the safety timer answered the command of a session that still
\* runs while another command was answered at once.
C9_TimerAnsweredFirst ==
    /\ isProcessing
    /\ cmds[owner].responses = 1
    /\ \E c \in CmdIds : c > owner /\ cmds[c].responses = 1

\* C10: after a request of a session came back with the missing-credential
\* error, that session sends no further request.
C10_ConfigErrorIsFatal ==
    \A r1, r2 \in ReqIds :
        ~ /\ r1 < r2
          /\ reqs[r1].sess = reqs[r2].sess
          /\ reqs[r1].settled
          /\ reqs[r1].outcome = ErrorData("config")


\* C11: on a first page of three listings A, B, C with budget 2, once the
\* session has counted two listings nothing more happens on the page: in no
\* step is a listing extracted, a request sent or the next page opened while
\* the counter has reached the budget.
C11_StopsAtBudget ==
    [][(isProcessing /\ pc \in {"loop", "extract", "await", "pageEnd"}
            /\ total >= maxJobs) =>
           (pc' # "extract" /\ Len(reqs') = Len(reqs) /\ page' = page)]_vars

\* C11 witness: the first session on A, B, C with budget 2 has ended after
\* the requests for A and B and none for C, still on the first page.
C11_AandBProcessedCPending ==
    /\ site = 2 /\ maxJobs = 2 /\ total = 2
    /\ ~isProcessing /\ Len(cmds) = 1
    /\ page = 1
    /\ DomId("C") \notin processedListings
    /\ Len(reqs) = 2 /\ reqs[1].elem = "A" /\ reqs[2].elem = "B"

\* C12: the failure streak counts dispatch failures: a step in which the
\* request of the running session resolves with a failure (timeout, transport
\* error or error response) raises failedCount by one, or, on the fourth in a
\* row, takes the cooldown and sets it back to 0.
C12_StreakCountsDispatchFailures ==
    [][(/\ isProcessing /\ pc = "await" /\ curReq \in 1..Len(reqs)
        /\ ~reqs[curReq].settled
        /\ reqs'[curReq].settled /\ ~reqs'[curReq].outcome.success) =>
           (\/ failedCount' = failedCount + 1
            \/ failedCount = 3 /\ failedCount' = 0)]_vars

\* C13: processedListings only grows: every step keeps all its members, except
\* the step in which a start command begins a session and empties it
\* (resetProcessed = true).  The end of a session, a failed request, a failed
\* listing and the move to the next page remove nothing.
C13_ProcessedOnlyGrows ==
    [][\/ processedListings \subseteq processedListings'
       \/ ~isProcessing /\ isProcessing' /\ processedListings' = {}]_vars

\* C13 witness: a session that moved to the second page, had a request fail
\* and ignored a start command with resetProcessed = true has ended, and the
\* listing it evaluated is still in processedListings.
C13_KeptThroughSession ==
    /\ ~isProcessing /\ ignoredReset
    /\ page = 2
    /\ processedListings # {}
    /\ \E r \in ReqIds : reqs[r].settled /\ ~reqs[r].outcome.success

\* C14: the id of a listing is stable: while the session waits for the
\* request of a listing, the id the loop read for the skip check (listingId)
\* and the id extractListingContent read from the same, unchanged listing
\* (content.jobId, the id of the request) are the same id.
C14_ListingIdStable ==
    (isProcessing /\ pc = "await" /\ curReq \in ReqIds) =>
        (listingId = jobId /\ reqs[curReq].jobId = listingId)


(***************************************************************************)
(* The results pages: the DOMContentLoaded handlers of yes_jobs.html and   *)
(* no_jobs.html, which read a stored collection, remove the duplicates and *)
(* show it.                                                                *)
(***************************************************************************)
MaxStored == 4      \* entries of a stored collection
MaxTs == 2          \* instants of the timestamps

\* new Date(timestamp): a timestamp stands for its instant; 0: the entry has none
NewDate(ts) == ts

\* uniqueJobsMap.set(job.id, job); a Map keeps the place of a key it holds
MapSet(m, job) ==
    IF \E k \in 1..Len(m) : m[k].id = job.id
    THEN [k \in 1..Len(m) |-> IF m[k].id = job.id THEN job ELSE m[k]]
    ELSE Append(m, job)

\* the forEach callback without the comparison of the timestamps
DedupStep_KeepFirst(m, job) ==
    IF job.id # 0 /\ (\A k \in 1..Len(m) : m[k].id # job.id)
    THEN MapSet(m, job)
    ELSE m

\* the forEach callback of the deduplication, on the map m so far
DedupStep(m, job) ==
    IF job.id # 0
    THEN IF \A k \in 1..Len(m) : m[k].id # job.id
         THEN MapSet(m, job)
         ELSE LET existingJob == m[CHOOSE k \in 1..Len(m) : m[k].id = job.id]
              IN  IF /\ job.timestamp # 0 /\ existingJob.timestamp # 0
                     /\ NewDate(job.timestamp) > NewDate(existingJob.timestamp)
                  THEN MapSet(m, job)
                  ELSE m
    ELSE m

\* uniqueJobsMap after the first n jobs
RECURSIVE uniqueJobsMap(_, _)
uniqueJobsMap(jobs, n) ==
    IF n = 0 THEN << >> ELSE DedupStep(uniqueJobsMap(jobs, n - 1), jobs[n])

\* Array.from(uniqueJobsMap.values())
dedupedJobs(jobs) == uniqueJobsMap(jobs, Len(jobs))

\* yes_jobs.html: DOMContentLoaded
LoadYesJobs ==
    /\ resultsPage = "none"
    /\ resultsPage' = "yes_jobs"
    /\ storedJobs' = storedMatching
    /\ LET jobs == JSONparseArray(storedMatching)
       IN  IF Len(jobs) > 0 /\ Len(dedupedJobs(jobs)) < Len(jobs)
           THEN /\ storedMatching' = JSONstringifyArray(dedupedJobs(jobs))
                /\ jobList' = dedupedJobs(jobs)
           ELSE /\ jobList' = jobs
                /\ UNCHANGED storedMatching
    /\ UNCHANGED <<site, titleVars, stepVars, storageVars, descVars, delayVars, extraVars,
                   page, storedMax, apiKey, lsWorks, sessVars, responseCache,
                   localStore, matchingJobs, rejectedJobs, storedRejected, clock,
                   reqs, cmds, loads, crossDelivered, ignoredReset>>

\* no_jobs.html: DOMContentLoaded
LoadNoJobs ==
    /\ resultsPage = "none"
    /\ resultsPage' = "no_jobs"
    /\ storedJobs' = storedRejected
    /\ LET jobs == JSONparseArray(storedRejected)
       IN  IF Len(jobs) > 0 /\ Len(dedupedJobs(jobs)) < Len(jobs)
           THEN /\ storedRejected' = JSONstringifyArray(dedupedJobs(jobs))
                /\ jobList' = dedupedJobs(jobs)
           ELSE /\ jobList' = jobs
                /\ UNCHANGED storedRejected
    /\ UNCHANGED <<site, titleVars, stepVars, storageVars, descVars, delayVars, extraVars,
                   page, storedMax, apiKey, lsWorks, sessVars, responseCache,
                   localStore, matchingJobs, rejectedJobs, storedMatching, clock,
                   reqs, cmds, loads, crossDelivered, ignoredReset>>

\* the collections of up to MaxStored entries with verdict v, in any order and
\* with any repetition of ids
StoredJobs(v) ==
    LET entries == {BasicInfo(CacheKey(id), [isGoodFit |-> v], ts) :
                        id \in JobIds, ts \in 1..MaxTs}
    IN  UNION {[1..n -> entries] : n \in 0..MaxStored}

\* one of the two collections holds entries when its results page opens
InitLoad ==
    /\ site = 1
    /\ storedMax = 0
    /\ apiKey = TRUE
    /\ FreshContext
    /\ companyElement = NoCompanyElement
    /\ titleElement = NoTitleElement
    /\ \E mj \in StoredJobs("Fit"), rj \in StoredJobs("NoFit") :
          /\ mj = << >> \/ rj = << >>
          /\ storedMatching = JSONstringifyArray(mj)
          /\ storedRejected = JSONstringifyArray(rj)
    /\ matchingJobs = loadJobs(storedMatching)
    /\ rejectedJobs = loadJobs(storedRejected)

NextLoad ==
    \/ LoadYesJobs
    \/ LoadNoJobs

SpecLoad == InitLoad /\ [][NextLoad]_vars

\* C15: when a results page has loaded a collection with two entries of the
\* same id and different timestamps, in either order, the list it shows has
\* exactly one entry with that id, an entry of the collection, and not the
\* earlier of the two.
C15_LaterEntryKept ==
    resultsPage # "none" =>
        LET old == JSONparseArray(storedJobs)
        IN  \A a, b \in 1..Len(old) :
                (/\ a # b /\ old[a].id = old[b].id
                 /\ NewDate(old[a].timestamp) > NewDate(old[b].timestamp)) =>
                    /\ Cardinality({k \in 1..Len(jobList) :
                                       jobList[k].id = old[a].id}) = 1
                    /\ \A k \in 1..Len(jobList) :
                          jobList[k].id = old[a].id =>
                              /\ \E c \in 1..Len(old) : old[c] = jobList[k]
                              /\ NewDate(jobList[k].timestamp)
                                     >= NewDate(old[a].timestamp)

\* C15 witness: the rejected collection held the later entry of one id before
\* its earlier entry and the earlier entry of another id before its later
\* entry; the page shows two entries and has stored the shorter collection.
C15_BothOrdersCollapsed ==
    /\ resultsPage = "no_jobs"
    /\ LET old == JSONparseArray(storedJobs)
       IN  /\ \E a, b \in 1..Len(old) :
                 a < b /\ old[a].id = old[b].id
                       /\ old[a].timestamp > old[b].timestamp
           /\ \E a, b \in 1..Len(old) :
                 a < b /\ old[a].id = old[b].id
                       /\ old[a].timestamp < old[b].timestamp
    /\ Len(jobList) = 2
    /\ storedRejected = JSONstringifyArray(jobList)


(***************************************************************************)
(* The title of a listing: the part of extractListingContent that reads the *)
(* text of the title element and removes a duplication.  A text is a       *)
(* sequence of characters.                                                 *)
(***************************************************************************)
MaxTitle == 9       \* characters of the text of a title element

Chars == {"a", " ", "-"}

Texts == UNION {[1..n -> Chars] : n \in 0..MaxTitle}

\* String.prototype.trim
Trim(s) ==
    LET ix == {k \in 1..Len(s) : s[k] # " "}
    IN  IF ix = {} THEN << >>
        ELSE SubSeq(s, CHOOSE k \in ix : \A m \in ix : k <= m,
                       CHOOSE k \in ix : \A m \in ix : k >= m)

\* s.substring(from, to), 0 <= from <= to <= s.length
Substring(s, from, to) == SubSeq(s, from + 1, to)

\* the separator of title.split(' - ')
Separator == <<" ", "-", " ">>

\* s.split(' - ')
RECURSIVE Split(_)
Split(s) ==
    LET at == {k \in 1..(Len(s) - 2) : SubSeq(s, k, k + 2) = Separator}
    IN  IF at = {} THEN <<s>>
        ELSE LET k == CHOOSE x \in at : \A y \in at : x <= y
             IN  <<SubSeq(s, 1, k - 1)>> \o Split(SubSeq(s, k + 3, Len(s)))

\* s.repeat(count) with count already an integer
RECURSIVE Repeat(_, _)
Repeat(s, count) == IF count = 0 THEN << >> ELSE s \o Repeat(s, count - 1)

\* the final cleanup without the loop over the lengths of the first part:
\* only the first half is tried
FinalCleanup_HalfOnly(t) ==
    IF Len(t) >= 2 /\ t = Repeat(Substring(t, 0, Len(t) \div 2), 2)
    THEN Substring(t, 0, Len(t) \div 2)
    ELSE t

\* the final cleanup: the loop over the lengths n = 1 .. floor(titleLength / 2)
\* of firstPart; firstPart.repeat(titleLength / n) repeats it
\* floor(titleLength / n) times
FinalCleanup(t) ==
    LET titleLength == Len(t)
        hits == {n \in 1..(titleLength \div 2) :
                    t = Repeat(Substring(t, 0, n), titleLength \div n)}
    IN  IF hits = {} THEN t
        ELSE Substring(t, 0, CHOOSE n \in hits : \A m \in hits : n <= m)

\* "Further cleanup for duplicate title issues": the split and the final cleanup
Cleanup(t) ==
    IF t # << >>
    THEN LET parts == Split(t)
         IN  FinalCleanup(IF Len(parts) = 2 /\ parts[1] = parts[2]
                          THEN parts[1] ELSE t)
    ELSE t

\* the text of the title element el before the cleanup: of its strong element,
\* of its first visible child, or of the element itself with the check of the
\* two halves
TitleText(el) ==
    IF el.kind \in {"strong", "span"}
    THEN Trim(el.text)
    ELSE LET fullText == Trim(el.text)
             halfLength == Len(fullText) \div 2
             firstHalf == Trim(Substring(fullText, 0, halfLength))
             secondHalf == Trim(Substring(fullText, halfLength, Len(fullText)))
         IN  IF firstHalf # << >> /\ firstHalf = secondHalf
             THEN firstHalf
             ELSE fullText

\* extractListingContent: "Get the job title text"
ExtractTitle ==
    /\ ~titleDone
    /\ titleElement.kind # "none"
    /\ title' = Cleanup(TitleText(titleElement))
    /\ titleDone' = TRUE
    /\ UNCHANGED <<site, resultsVars, titleElement, stepVars, storageVars, descVars,
                   delayVars, extraVars, page,
                   storedMax, apiKey, lsWorks,
                   sessVars, cacheVars, reqs, cmds, loads, crossDelivered,
                   ignoredReset>>

\* a listing whose title element carries any text, read in any of the three ways
InitTitle ==
    /\ site = 1
    /\ storedMax = 0
    /\ apiKey = TRUE
    /\ FreshContext
    /\ companyElement = NoCompanyElement
    /\ titleElement \in [kind : {"strong", "span", "text"}, text : Texts]
    /\ matchingJobs = << >>
    /\ rejectedJobs = << >>
    /\ storedMatching = JSONstringifyArray(<< >>)
    /\ storedRejected = JSONstringifyArray(<< >>)

NextTitle == ExtractTitle

SpecTitle == InitTitle /\ [][NextTitle]_vars

\* t is not a repetition of a shorter text
Primitive(t) ==
    \A n \in 1..(Len(t) - 1) : t # Repeat(SubSeq(t, 1, n), Len(t) \div n)

\* the text full is T repeated twice or more, or T - T
Duplicates(full, T) ==
    \/ Len(T) < Len(full) /\ full = Repeat(T, Len(full) \div Len(T))
    \/ full = T \o Separator \o T

\* C16 as stated: a title text that is T repeated, or T - T, for any non-empty
\* T, is extracted as T.
C16_CollapsesToT ==
    titleDone =>
        LET full == Trim(titleElement.text)
        IN  \A n \in 1..Len(full) :
                Duplicates(full, SubSeq(full, 1, n)) => title = SubSeq(full, 1, n)

\* C16 amended: a title text that is T repeated, or T - T, is extracted as T
\* when T is not itself a repetition of a shorter text and does not contain
\* " - ", and, in T - T, T neither begins with "- " nor ends with " -" (the
\* split gives the two parts T and T).
C16_CollapsesToPrimitiveT ==
    titleDone =>
        LET full == Trim(titleElement.text)
        IN  \A n \in 1..Len(full) :
                LET T == SubSeq(full, 1, n)
                IN  (/\ Duplicates(full, T)
                     /\ Primitive(T)
                     /\ Split(T) = <<T>>
                     /\ full = T \o Separator \o T => Split(full) = <<T, T>>)
                        => title = T

\* C16 witness: the text of the title element itself was T - T with a T of
\* three characters, as "a-a - a-a", and the title is T.
C16_DashFormCollapsed ==
    /\ titleDone
    /\ titleElement.kind = "text"
    /\ Len(title) = 3
    /\ Trim(titleElement.text) = title \o Separator \o title


(***************************************************************************)
(* The cache on its own: saveToCache called with any result.               *)
(***************************************************************************)
MaxClock == 3       \* entries written to the collections

\* isGoodFit of a result: true, false, anything else
Verdicts == {"Fit", "NoFit", "Unknown"}

\* processor.saveToCache(`job_${id}`, result) with result.isGoodFit = v
SaveToCache(id, v) ==
    /\ pc = "idle"
    /\ clock < MaxClock
    /\ SetCacheState(saveToCache(CacheState, CacheKey(id), [isGoodFit |-> v], lsWorks))
    /\ UNCHANGED <<envVars, sessVars, reqs, cmds, loads, crossDelivered, ignoredReset>>

NextPut ==
    \/ \E id \in JobIds : \E v \in Verdicts : SaveToCache(id, v)
    \/ \E b \in BOOLEAN : SetLsWorks(b)

SpecPut == Init /\ [][NextPut]_vars

\* jobs holds exactly one more entry than old when id is new to old and as
\* many otherwise, and its entry of id carries the verdict v
UpsertedInto(old, jobs, id, v) ==
    /\ Len(jobs) = Len(old) + (IF id \in Ids(old) THEN 0 ELSE 1)
    /\ \E k \in 1..Len(jobs) : jobs[k].id = id /\ jobs[k].isGoodFit = v
    /\ \A k \in 1..Len(old) : old[k].id # id => jobs[k] = old[k]

\* C17: every step that changes the cache is a saveToCache of some id with
\* some verdict: it puts the result into responseCache under the key of the
\* id and into localStorage under the same key (a setItem that throws is
\* logged and swallowed, and localStorage stays as it was), upserts the entry
\* into matchingJobs for Fit, into rejectedJobs for NoFit, each written to
\* chrome.storage, and leaves both collections alone for any other verdict.
C17_PutWritesAllStores ==
    [][cacheVars' # cacheVars =>
          \E id \in JobIds : \E v \in Verdicts :
              LET key == CacheKey(id)
                  res == [isGoodFit |-> v]
              IN  /\ responseCache' = (key :> res) @@ responseCache
                  /\ localStore' = IF lsWorks
                                   THEN (key :> JSONstringify(res)) @@ localStore
                                   ELSE localStore
                  /\ storedMatching' = JSONstringifyArray(matchingJobs')
                  /\ storedRejected' = JSONstringifyArray(rejectedJobs')
                  /\ v = "Fit" =>
                        /\ UpsertedInto(matchingJobs, matchingJobs', id, v)
                        /\ rejectedJobs' = rejectedJobs
                  /\ v = "NoFit" =>
                        /\ UpsertedInto(rejectedJobs, rejectedJobs', id, v)
                        /\ matchingJobs' = matchingJobs
                  /\ v = "Unknown" =>
                        /\ matchingJobs' = matchingJobs
                        /\ rejectedJobs' = rejectedJobs]_vars

\* C17 witness: one id was saved with a verdict that is neither true nor
\* false and is in responseCache and localStorage but in no collection, and
\* another id was saved as a fit and is in matchingJobs.
C17_UnknownInNoCollection ==
    \E id, other \in JobIds :
        /\ HasCachedResult(responseCache, CacheKey(id))
        /\ responseCache[CacheKey(id)].isGoodFit = "Unknown"
        /\ CacheKey(id) \in DOMAIN localStore
        /\ JSONparse(localStore[CacheKey(id)]) = responseCache[CacheKey(id)]
        /\ id \notin Ids(matchingJobs) \cup Ids(rejectedJobs)
        /\ other \in Ids(matchingJobs) /\ other \notin Ids(rejectedJobs)
        /\ storedMatching = JSONstringifyArray(matchingJobs)


(***************************************************************************)
(* Two tabs on the site.  Each tab has a JobProcessor of its own; the tabs *)
(* share window.localStorage (one origin) and chrome.storage.local.  The   *)
(* variables hold the first tab's processor.                               *)
(***************************************************************************)
\* JobProcessor.getCachedResult(cacheKey) on a valid key: the result in a
\* one-element sequence, << >> for undefined
getCachedResult(cache, key) ==
    IF key \in DOMAIN cache THEN <<cache[key]>> ELSE << >>

\* a second tab opens the site (its processor's init loads localStorage and
\* the two collections) and its processListing for the listing with job id id
\* runs to the end, the request resolved with data
OtherTabProcessListing(id, data) ==
    /\ pc = "idle"
    /\ LET other == [cache |-> loadCacheFromLocalStorage(localStore),
                     ls |-> localStore,
                     mj |-> loadJobs(storedMatching),
                     rj |-> loadJobs(storedRejected),
                     sm |-> storedMatching,
                     sr |-> storedRejected,
                     clk |-> clock]
           after == IF HasCachedResult(other.cache, CacheKey(id))
                    THEN other
                    ELSE processorProcessListing(other, CacheKey(id), data, lsWorks)
       IN  /\ localStore' = after.ls
           /\ storedMatching' = after.sm
           /\ storedRejected' = after.sr
           /\ clock' = after.clk
    /\ UNCHANGED <<envVars, sessVars, responseCache, matchingJobs, rejectedJobs,
                   reqs, cmds, loads, crossDelivered, ignoredReset>>

NextTabs ==
    \/ \E id \in JobIds : \E data \in Outcomes : ProcessListing(id, data)
    \/ \E id \in JobIds : \E data \in Outcomes : OtherTabProcessListing(id, data)
    \/ Reload

SpecTabs == Init /\ [][NextTabs]_vars

\* C18: getCachedResult returns the result in responseCache when there is
\* one, otherwise the result stored in localStorage under the key when there
\* is one, and undefined only when both have none.
C18_GetConsultsBothStores ==
    \A id \in JobIds :
        getCachedResult(responseCache, CacheKey(id)) =
            IF CacheKey(id) \in DOMAIN responseCache
            THEN <<responseCache[CacheKey(id)]>>
            ELSE IF CacheKey(id) \in DOMAIN localStore
            THEN <<JSONparse(localStore[CacheKey(id)])>>
            ELSE << >>


(***************************************************************************)
(* Termination of a session, on a result list of one listing and an empty  *)
(* second page, where no bound of the model stops a session.  The timers   *)
(* of the page fire and the steps of a running session are taken: each is  *)
(* the continuation of an await on a timer, on chrome.storage or on the    *)
(* promise of the request, which its 15 s timer resolves at the latest.    *)
(***************************************************************************)
InitLive ==
    /\ site = 3
    /\ storedMax \in 0..MaxBudget
    /\ apiKey \in BOOLEAN
    /\ Fresh

FairSession ==
    /\ WF_vars(ReadBudget)
    /\ WF_vars(WaitForJobListings)
    /\ WF_vars(LoopStep)
    /\ WF_vars(\E ok \in BOOLEAN : ExtractStep(ok))
    /\ WF_vars(PageEnd)
    /\ \A r \in 1..MaxReq : WF_vars(RequestTimeout(r))

SpecLive == InitLive /\ [][Next]_vars /\ FairSession

C20_StrictlySequential ==
    /\ \A r1, r2 \in ReqIds :
          (/\ reqs[r1].sess = reqs[r2].sess
           /\ ~reqs[r1].settled /\ ~reqs[r2].settled) => r1 = r2
    /\ \A r \in ReqIds :
          ~reqs[r].settled =>
              /\ isProcessing /\ owner = reqs[r].sess
              /\ pc = "await" /\ curReq = r

\* C20 witness: the second request of a session waits in the channel after
\* its first request was resolved.
C20_SecondRequestAfterFirst ==
    /\ Len(reqs) = 2
    /\ reqs[1].sess = reqs[2].sess
    /\ reqs[1].settled /\ ~reqs[2].settled
    /\ pc = "await" /\ curReq = 2

\* C21: a running session opens the next page only in a step that starts
\* with the counter below the budget, and that step changes neither the
\* counter nor the budget: what the new page may still process is the budget
\* less what the session has counted on the pages before.
C21_NextPageKeepsBudget ==
    [][(isProcessing /\ page' # page) =>
           /\ total < maxJobs
           /\ total' = total /\ maxJobs' = maxJobs
           /\ isProcessing' => remaining' = maxJobs - total]_vars

\* C21 witness: the session with budget 2 has counted one listing on the
\* first page and is on the second page, where one more is allowed.
C21_SecondPageWithRestOfBudget ==
    /\ isProcessing /\ pc = "loop"
    /\ page = 2 /\ maxJobs = 2 /\ total = 1
    /\ remaining = 1

(***************************************************************************)
(* Saving and loading the collections.                                     *)
(***************************************************************************)
\* the entries of a collection that carry the id
EntriesOf(jobs, id) == {jobs[k] : k \in {n \in 1..Len(jobs) : jobs[n].id = id}}

maxRetries == 3

\* what one call of extractListingContent can come to: a record with title
\* and company, a record whose title or company is empty or a placeholder,
\* null, or an exception
Cards == {"complete", "incomplete", "none", "throws"}

\* the page renders the listing differently (LinkedIn fills and replaces the
\* cards of the list at any time)
Render(c) ==
    /\ c # card
    /\ card' = c
    /\ UNCHANGED <<rpc, content, retryCount, retryDelay, waits>>
    /\ UNCHANGED retryRest

\* processListing reaches "let content = null; let retryCount = 0"
BeginExtraction ==
    /\ rpc \in {"idle", "extracted", "skipped"}
    /\ rpc' = "test"
    /\ content' = "null"
    /\ retryCount' = 0
    /\ retryDelay' = 0
    /\ waits' = << >>
    /\ UNCHANGED card
    /\ UNCHANGED retryRest

\* while (!content && retryCount < maxRetries); after the loop
\* "if (!content) return false"
LoopTest ==
    /\ rpc = "test"
    /\ rpc' = IF content = "null" /\ retryCount < maxRetries THEN "extract"
              ELSE IF content = "null" THEN "skipped"
              ELSE "extracted"
    /\ UNCHANGED <<card, content, retryCount, retryDelay, waits>>
    /\ UNCHANGED retryRest

\* one pass of the body up to the delay: content = await
\* this.extractListingContent(listing), the validation and the catch block
Attempt ==
    /\ rpc = "extract"
    /\ CASE card = "complete" ->
               /\ content' = "record" /\ rpc' = "test"
               /\ UNCHANGED retryDelay
         [] card = "incomplete" ->
               /\ retryDelay' = 1000 * (retryCount + 1)
               /\ rpc' = "delay"
               /\ UNCHANGED content
         [] card = "none" ->
               /\ content' = "null" /\ rpc' = "test"
               /\ UNCHANGED retryDelay
         [] card = "throws" ->
               /\ retryDelay' = 1500 * (retryCount + 1)
               /\ rpc' = "delay"
               /\ UNCHANGED content
    /\ UNCHANGED <<card, retryCount, waits>>
    /\ UNCHANGED retryRest

\* the timer of the delay fires: "content = null; retryCount++"
DelayFires ==
    /\ rpc = "delay"
    /\ content' = "null"
    /\ retryCount' = retryCount + 1
    /\ waits' = Append(waits, retryDelay)
    /\ retryDelay' = 0
    /\ rpc' = "test"
    /\ UNCHANGED card
    /\ UNCHANGED retryRest

InitRetry ==
    /\ site = 1
    /\ storedMax = 0
    /\ apiKey = TRUE
    /\ Fresh

NextRetry ==
    \/ \E c \in Cards : Render(c)
    \/ BeginExtraction
    \/ LoopTest
    \/ Attempt
    \/ DelayFires

\* the loop runs on: the condition is tested, the awaited extraction returns
\* and the timers fire
FairRetry ==
    /\ WF_vars(LoopTest)
    /\ WF_vars(Attempt)
    /\ WF_vars(DelayFires)

SpecRetry == InitRetry /\ [][NextRetry]_vars /\ FairRetry

\* C23: the extraction loop of a listing ends, with a record or with the
\* listing skipped, whatever the attempts come to.
C23_RetryLoopTerminates ==
    (rpc = "test") ~> (rpc \in {"extracted", "skipped"})

\* C24: a listing whose first request of a session ended in the 15 s timeout
\* is dispatched again by that session: once the session is over, a later
\* request of the same session carries the same job id.
C24_TimedOutListingRedispatched ==
    \A r \in ReqIds :
        (/\ reqs[r].outcome = TimeoutFailure
         /\ \A q \in 1..(r - 1) :
               ~(reqs[q].sess = reqs[r].sess /\ reqs[q].jobId = reqs[r].jobId)
         /\ ~(isProcessing /\ owner = reqs[r].sess)) =>
            \E q \in (r + 1)..Len(reqs) :
                reqs[q].sess = reqs[r].sess /\ reqs[q].jobId = reqs[r].jobId

\* the step ends the current listing of the session with an error: the
\* extraction gave no complete record, or the request of the listing was
\* resolved with a failure (timeout, transport error, error of the analyzer)
ListingError ==
    /\ isProcessing
    /\ \/ pc = "extract" /\ pc' \notin {"extract", "await"} /\ total' = total
       \/ /\ pc = "await" /\ curReq \in 1..Len(reqs)
          /\ ~reqs[curReq].settled
          /\ reqs'[curReq].settled /\ ~reqs'[curReq].outcome.success

MaxTicks == 8
MaxBatches == 3

\* setTimeout(..., 1500) of the observer callback
MutationDelay == 1500

\* this.debounce(..., 300) of the scroll listener
ScrollWait == 300

\* a timer is due
Due == {k \in 1..Len(timers) : timers[k] <= now}
    \cup (IF scrollTimer # -1 /\ scrollTimer <= now THEN {0} ELSE {})

\* the sequence without its k-th element
Remove(seq, k) == SubSeq(seq, 1, k - 1) \o SubSeq(seq, k + 1, Len(seq))

\* the callback of this.observer runs for a batch of mutations; relevant: a
\* job card, a list item or the pagination was added
MutationBatch(relevant) ==
    /\ Len(timers) + rescans < MaxBatches
    /\ IF relevant
       THEN /\ timers' = Append(timers, now + MutationDelay)
            /\ lastBatch' = now
       ELSE UNCHANGED <<timers, lastBatch>>
    /\ UNCHANGED <<now, scrollTimer, rescans, scrollRescans>>
    /\ UNCHANGED observerRest

\* a timer set by the observer callback fires
MutationTimerFires(k) ==
    /\ k \in 1..Len(timers)
    /\ timers[k] <= now
    /\ timers' = Remove(timers, k)
    /\ rescans' = rescans + 1
    /\ UNCHANGED <<now, scrollTimer, scrollRescans, lastBatch>>
    /\ UNCHANGED observerRest

\* debounce(func, wait): the function returned runs at time t with the timer
\* variable timeout; clearTimeout(timeout), then timeout = setTimeout(..., wait)
debounce(timeout, t, wait) == t + wait

\* a scroll event: the debounced listener runs
Scroll ==
    /\ scrollTimer' = debounce(scrollTimer, now, ScrollWait)
    /\ scrollTimer' # scrollTimer
    /\ UNCHANGED <<now, timers, rescans, scrollRescans, lastBatch>>
    /\ UNCHANGED observerRest

\* the timer of the debounced scroll listener fires
ScrollTimerFires ==
    /\ scrollTimer # -1 /\ scrollTimer <= now
    /\ scrollTimer' = -1
    /\ scrollRescans' = IF scrollRescans < MaxBatches THEN scrollRescans + 1
                        ELSE scrollRescans
    /\ UNCHANGED <<now, timers, rescans, lastBatch>>
    /\ UNCHANGED observerRest

\* 300 ms pass; a timer that is due fires first
Tick ==
    /\ now < MaxTicks * ScrollWait
    /\ Due = {}
    /\ now' = now + ScrollWait
    /\ UNCHANGED <<timers, scrollTimer, rescans, scrollRescans, lastBatch>>
    /\ UNCHANGED observerRest

InitObserver ==
    /\ site = 1
    /\ storedMax = 0
    /\ apiKey = TRUE
    /\ Fresh

NextObserver ==
    \/ \E relevant \in BOOLEAN : MutationBatch(relevant)
    \/ \E k \in 1..MaxBatches : MutationTimerFires(k)
    \/ Scroll
    \/ ScrollTimerFires
    \/ Tick

SpecObserver == InitObserver /\ [][NextObserver]_vars

\* C26: the rescan caused by relevant mutation batches happens one quiet
\* period after the last of them, and a burst of batches, each within the
\* quiet period of the one before, leaves at most one rescan to come.
C26_OneRescanAfterBurst ==
    /\ [][rescans' = rescans + 1 => now = lastBatch + MutationDelay]_vars
    /\ [](Len(timers) <= 1)

\* C27: a request resolved with the transport failure has its timer off and
\* its listener removed, from the step that resolves it on; and no later step
\* (the 15 s passing, a message for its id or for another id) changes its
\* outcome, its timer or its listener.
C27_TransportErrorIsFinal ==
    /\ [](\A r \in ReqIds :
            reqs[r].outcome = TransportFailure =>
                /\ reqs[r].settled
                /\ reqs[r].timer = "off"
                /\ ~reqs[r].listener)
    /\ [][\A r \in ReqIds :
            reqs[r].outcome = TransportFailure =>
                /\ reqs'[r].outcome = TransportFailure
                /\ reqs'[r].settled
                /\ reqs'[r].timer = "off"
                /\ ~reqs'[r].listener]_vars

\* C27 witness: the analyzer's response for a request arrived after the
\* request had been resolved with the transport failure, and the session had
\* gone on to the next listing.
C27_ResponseAfterTransportError ==
    \E r \in ReqIds :
        /\ reqs[r].outcome = TransportFailure
        /\ reqs[r].bg = "done"
        /\ isProcessing /\ owner = reqs[r].sess /\ curReq # r

(***************************************************************************)
(* Sessions over failing durable stores: localStorage.setItem throws, and  *)
(* chrome.storage.local fails to read and to write.                        *)
(***************************************************************************)
\* chrome.storage.local starts to fail (quota exceeded, storage unavailable)
\* or works again
SetStorageWorks(b) ==
    /\ pc = "idle"
    /\ b # storageWorks
    /\ storageWorks' = b
    /\ UNCHANGED <<mainVars, resultsVars, titleVars, stepVars, descVars, delayVars,
                   extraVars>>

\* the sessions of one tab that stays on its result list and keeps its budget
NextPersist ==
    \/ \E reset \in BOOLEAN : ReceiveStart(reset)
    \/ \E c \in 1..MaxCmds : SafetyTimeoutFires(c)
    \/ ReadBudget
    \/ WaitForJobListings
    \/ LoopStep
    \/ \E ok \in BOOLEAN : ExtractStep(ok)
    \/ \E r \in 1..MaxReq : RequestTimeout(r)
    \/ \E r \in 1..MaxReq, lastError \in BOOLEAN : RequestCallback(r, lastError)
    \/ \E r \in 1..MaxReq : DeliverResponse(r)
    \/ \E r \in 1..MaxReq : \E data \in Responses : BgProcess(r, data)
    \/ PageEnd
    \/ \E b \in BOOLEAN : SetLsWorks(b)
    \/ \E b \in BOOLEAN : SetStorageWorks(b)
    \/ Reload

\* on a result list of one listing
SpecPersist == InitLive /\ [][NextPersist]_vars

\* C28: whether or not the durable stores take the writes, the step in which
\* the request of the current listing is resolved with a verdict puts the
\* result into responseCache and the entry into the collection of the
\* verdict, records the job id as processed and leaves the session running at
\* the next listing; and a page load whose read of the collections fails
\* leaves the processor with empty collections and the adapter idle.
C28_PersistenceErrorsSwallowed ==
    /\ [][(/\ isProcessing /\ pc = "await" /\ curReq \in 1..Len(reqs)
           /\ ~reqs[curReq].settled
           /\ reqs'[curReq].settled /\ reqs'[curReq].outcome.success) =>
              LET key == CacheKey(jobId)
                  v == reqs'[curReq].outcome.isGoodFit
              IN  /\ HasCachedResult(responseCache', key)
                  /\ responseCache'[key] = [isGoodFit |-> v]
                  /\ v = "Fit" =>
                        \E k \in 1..Len(matchingJobs') :
                            matchingJobs'[k].id = jobId /\ matchingJobs'[k].isGoodFit = v
                  /\ v = "NoFit" =>
                        \E k \in 1..Len(rejectedJobs') :
                            rejectedJobs'[k].id = jobId /\ rejectedJobs'[k].isGoodFit = v
                  /\ jobId \in processedListings'
                  /\ isProcessing' /\ owner' = owner
                  /\ pc' = "loop" /\ i' = i + 1]_vars
    /\ [][(loads' = loads + 1 /\ ~storageWorks) =>
              /\ matchingJobs' = << >> /\ rejectedJobs' = << >>
              /\ ~isProcessing' /\ pc' = "idle"]_vars

\* C28 witness: while localStorage and chrome.storage.local both fail, the
\* first listing of the session was evaluated as a fit: it is in
\* responseCache and in matchingJobs, in neither durable store, and the
\* session is at the next listing.
C28_KeptInMemoryOnly ==
    /\ ~lsWorks /\ ~storageWorks
    /\ isProcessing /\ pc = "loop" /\ i = 2 /\ total = 1
    /\ \E id \in JobIds :
          /\ HasCachedResult(responseCache, CacheKey(id))
          /\ id \in Ids(matchingJobs)
          /\ id \in processedListings
          /\ CacheKey(id) \notin DOMAIN localStore
          /\ storedMatching = JSONstringifyArray(<< >>)

(***************************************************************************)
(* "Get Description" of extractListingContent (LinkedInAdapter.js 571-610) *)
(* and what processListing does with the record.  Time passes in steps of  *)
(* 500 ms.                                                                 *)
(***************************************************************************)
MaxPolls == 12

\* setTimeout(checkDescription, 500)
PollInterval == 500

\* the safety timeout of the description wait
DescriptionTimeout == 5000

\* what the page can show for the description: no container, a container
\* without text, a container with the text of the job
Panels == {"absent", "empty", "text"}

\* descriptionContainer.textContent.trim()
PanelText(p) == IF p = "text" THEN "text" ELSE ""

\* the record extractListingContent returns for a listing whose card gave a
\* title and a company
Record(d) == [title |-> "title", company |-> "company", description |-> d]

\* the validation of processListing: the record is incomplete
Incomplete(c) ==
    \/ c.title = "" \/ c.company = ""
    \/ c.title = "Unknown Title" \/ c.company = "Unknown Company"

\* the page fills, empties or removes the description container
PanelChanges(p) ==
    /\ p # panel
    /\ panel' = p
    /\ everPopulated' = (everPopulated \/ (dpc = "waiting" /\ p = "text"))
    /\ UNCHANGED <<elapsed, pollTimer, safetyTimer, description, dpc, returned,
                   returnedAt>>
    /\ UNCHANGED descRest

\* clickableElement.click() and the executor of the promise: the first poll
\* and the safety timeout are set
StartDescription ==
    /\ dpc = "idle"
    /\ dpc' = "waiting"
    /\ elapsed' = 0
    /\ pollTimer' = PollInterval
    /\ safetyTimer' = DescriptionTimeout
    /\ description' = ""
    /\ everPopulated' = (panel = "text")
    /\ UNCHANGED <<panel, returned, returnedAt>>
    /\ UNCHANGED descRest

\* resolve() of the promise, given the value d of description: the first
\* call lets extractListingContent return its record, a later call is a no-op
ResolveDescription(d) ==
    IF dpc = "waiting"
    THEN /\ dpc' = "returned"
         /\ returned' = <<Record(d)>>
         /\ returnedAt' = elapsed
    ELSE UNCHANGED <<dpc, returned, returnedAt>>

\* checkDescription
checkDescription ==
    /\ pollTimer # -1 /\ pollTimer <= elapsed
    /\ IF panel # "absent"
       THEN /\ description' = PanelText(panel)
            /\ pollTimer' = -1
            /\ ResolveDescription(PanelText(panel))
       ELSE /\ pollTimer' = elapsed + PollInterval
            /\ UNCHANGED <<description, dpc, returned, returnedAt>>
    /\ UNCHANGED <<panel, elapsed, safetyTimer, everPopulated>>
    /\ UNCHANGED descRest

\* the safety timeout without its resolve()
SafetyTimeoutDescription_NoResolve ==
    /\ safetyTimer # -1 /\ safetyTimer <= elapsed
    /\ safetyTimer' = -1
    /\ UNCHANGED <<dpc, returned, returnedAt>>
    /\ UNCHANGED <<panel, elapsed, pollTimer, description, everPopulated>>
    /\ UNCHANGED descRest

\* the callback of the safety timeout: if (!description) resolve()
SafetyTimeoutDescription ==
    /\ safetyTimer # -1 /\ safetyTimer <= elapsed
    /\ safetyTimer' = -1
    /\ IF description = ""
       THEN ResolveDescription(description)
       ELSE UNCHANGED <<dpc, returned, returnedAt>>
    /\ UNCHANGED <<panel, elapsed, pollTimer, description, everPopulated>>
    /\ UNCHANGED descRest

\* processListing after extractListingContent returned: a complete record
\* goes to processor.processListing
DispatchRecord ==
    /\ dpc = "returned"
    /\ dpc' = IF Incomplete(returned[1]) THEN "retry" ELSE "dispatched"
    /\ UNCHANGED <<panel, elapsed, pollTimer, safetyTimer, description, returned,
                   returnedAt, everPopulated>>
    /\ UNCHANGED descRest

\* 500 ms pass; a timer that is due fires first, and the record returned is
\* taken up before any time passes
DescriptionTick ==
    /\ dpc \notin {"idle", "returned"}
    /\ elapsed < MaxPolls * PollInterval
    /\ ~(pollTimer # -1 /\ pollTimer <= elapsed)
    /\ ~(safetyTimer # -1 /\ safetyTimer <= elapsed)
    /\ elapsed' = elapsed + PollInterval
    /\ UNCHANGED <<panel, pollTimer, safetyTimer, description, dpc, returned,
                   returnedAt, everPopulated>>
    /\ UNCHANGED descRest

InitDescription ==
    /\ site = 1
    /\ storedMax = 0
    /\ apiKey = TRUE
    /\ Fresh

NextDescription ==
    \/ \E p \in Panels : PanelChanges(p)
    \/ StartDescription
    \/ checkDescription
    \/ SafetyTimeoutDescription
    \/ DispatchRecord
    \/ DescriptionTick

SpecDescription == InitDescription /\ [][NextDescription]_vars

\* C29: the description wait is over 5000 ms after it began at the latest;
\* extractListingContent then has returned a record, whose description is
\* empty when the container held no text at any time of the wait, and the
\* record is complete for processListing, which sends it on.
C29_DescriptionWithinTimeout ==
    /\ dpc = "waiting" => elapsed <= DescriptionTimeout
    /\ dpc \in {"returned", "dispatched", "retry"} =>
          /\ returnedAt <= DescriptionTimeout
          /\ Len(returned) = 1
          /\ ~everPopulated => returned[1].description = ""
          /\ ~Incomplete(returned[1])
    /\ dpc # "retry"

\* C29 witness: the container never appeared, the safety timeout ended the
\* wait at 5000 ms, and the record with the empty description was dispatched.
C29_EmptyDescriptionDispatched ==
    /\ dpc = "dispatched"
    /\ returnedAt = DescriptionTimeout
    /\ ~everPopulated /\ panel = "absent"
    /\ returned[1].description = ""

(***************************************************************************)
(* The loop of processCurrentPage with its timers (AdapterFactory.js       *)
(* 349-449): the delayPromise of a listing and the waits of the pagination.*)
(* Timers are kept by the time left; time passes in steps of 500 ms.       *)
(***************************************************************************)
MaxItems == 2
MaxLoopPages == 2

\* const delayPromise = new Promise(resolve => setTimeout(resolve, 1500))
InterItemDelay == 1500

\* the wait before the click on the next-page control
ScrollWaitBeforeClick == 1500

\* the wait for the next page to load
PageLoadWait == 4000

\* the step of time: a third of the inter-item delay
TimeStep == InterItemDelay \div 3

\* t less one step of time, for a timer that runs
Less(t) == IF t > TimeStep THEN t - TimeStep ELSE 0

\* the timer of delayPromise is due and has not fired
DelayDue == delayLeft = 0 /\ ~delayFired

\* startProcessing calls processCurrentPage(maxJobsToProcess)
StartLoop(b) ==
    /\ loopPc = "idle"
    /\ loopPc' = "head"
    /\ loopBudget' = b
    /\ UNCHANGED <<loopPage, loopIndex, loopTotal, delayLeft, delayFired, wakeLeft>>
    /\ UNCHANGED delayRest

\* the loop ends: no listing left on the page, or the budget is used up
LoopExit ==
    /\ loopPc = "head"
    /\ loopIndex > MaxItems \/ loopTotal >= loopBudget
    /\ loopPc' = "pageEnd"
    /\ UNCHANGED <<loopPage, loopIndex, loopTotal, loopBudget, delayLeft, delayFired,
                   wakeLeft>>
    /\ UNCHANGED delayRest

\* "continue" for a listing without id or already processed
SkipListing ==
    /\ loopPc = "head"
    /\ loopIndex <= MaxItems /\ loopTotal < loopBudget
    /\ loopIndex' = loopIndex + 1
    /\ UNCHANGED <<loopPc, loopPage, loopTotal, loopBudget, delayLeft, delayFired,
                   wakeLeft>>
    /\ UNCHANGED delayRest

\* the delayPromise is made and this.processListing(listing) is called
BeginListing ==
    /\ loopPc = "head"
    /\ loopIndex <= MaxItems /\ loopTotal < loopBudget
    /\ loopPc' = "processing"
    /\ delayLeft' = InterItemDelay
    /\ delayFired' = FALSE
    /\ UNCHANGED <<loopPage, loopIndex, loopTotal, loopBudget, wakeLeft>>
    /\ UNCHANGED delayRest

\* processListing returned res, and the loop goes to the next listing at once
FinishListing_NoAwait(res) ==
    /\ loopPc = "processing"
    /\ loopTotal' = IF res THEN loopTotal + 1 ELSE loopTotal
    /\ loopPc' = "head"
    /\ loopIndex' = loopIndex + 1
    /\ UNCHANGED <<loopPage, loopBudget, delayLeft, delayFired, wakeLeft>>
    /\ UNCHANGED delayRest

\* processListing returned res: the counters, and "await delayPromise" when
\* a listing is left on the page and the budget is not used up
FinishListing(res) ==
    /\ loopPc = "processing"
    /\ loopTotal' = IF res THEN loopTotal + 1 ELSE loopTotal
    /\ IF loopIndex < MaxItems /\ loopTotal' < loopBudget
       THEN /\ loopPc' = "awaitDelay"
            /\ UNCHANGED loopIndex
       ELSE /\ loopPc' = "head"
            /\ loopIndex' = loopIndex + 1
    /\ UNCHANGED <<loopPage, loopBudget, delayLeft, delayFired, wakeLeft>>
    /\ UNCHANGED delayRest

\* the timer of delayPromise fires
DelayTimerFires ==
    /\ DelayDue
    /\ delayFired' = TRUE
    /\ UNCHANGED <<loopPc, loopPage, loopIndex, loopTotal, loopBudget, delayLeft,
                   wakeLeft>>
    /\ UNCHANGED delayRest

\* "await delayPromise" returns
AwaitDelayDone ==
    /\ loopPc = "awaitDelay"
    /\ delayFired
    /\ loopPc' = "head"
    /\ loopIndex' = loopIndex + 1
    /\ UNCHANGED <<loopPage, loopTotal, loopBudget, delayLeft, delayFired, wakeLeft>>
    /\ UNCHANGED delayRest

\* after the loop: the next-page control is used when budget is left and the
\* result list has a next page
AfterLoop ==
    /\ loopPc = "pageEnd"
    /\ IF loopBudget - loopTotal > 0 /\ loopPage < MaxLoopPages
       THEN /\ loopPc' = "paginate"
            /\ wakeLeft' = ScrollWaitBeforeClick + PageLoadWait
       ELSE /\ loopPc' = "done"
            /\ UNCHANGED wakeLeft
    /\ UNCHANGED <<loopPage, loopIndex, loopTotal, loopBudget, delayLeft, delayFired>>
    /\ UNCHANGED delayRest

\* the waits of the pagination are over: processCurrentPage(maxJobsOnPage)
\* on the next page
NextPageLoop ==
    /\ loopPc = "paginate"
    /\ wakeLeft = 0
    /\ loopPage' = loopPage + 1
    /\ loopIndex' = 1
    /\ loopPc' = "head"
    /\ UNCHANGED <<loopTotal, loopBudget, delayLeft, delayFired, wakeLeft>>
    /\ UNCHANGED delayRest

\* time passes while processListing runs or the loop waits; a timer that is
\* due fires first
LoopTick ==
    /\ loopPc \in {"processing", "awaitDelay", "paginate"}
    /\ ~DelayDue
    /\ ~(loopPc = "paginate" /\ wakeLeft = 0)
    /\ delayLeft' = IF delayLeft = -1 THEN -1 ELSE Less(delayLeft)
    /\ wakeLeft' = IF loopPc = "paginate" THEN Less(wakeLeft) ELSE wakeLeft
    /\ <<delayLeft', wakeLeft'>> # <<delayLeft, wakeLeft>>
    /\ UNCHANGED <<loopPc, loopPage, loopIndex, loopTotal, loopBudget, delayFired>>
    /\ UNCHANGED delayRest

InitDelay ==
    /\ site = 1
    /\ storedMax = 0
    /\ apiKey = TRUE
    /\ Fresh

NextDelay ==
    \/ \E b \in 1..(MaxItems * MaxLoopPages) : StartLoop(b)
    \/ LoopExit
    \/ SkipListing
    \/ BeginListing
    \/ \E res \in BOOLEAN : FinishListing(res)
    \/ DelayTimerFires
    \/ AwaitDelayDone
    \/ AfterLoop
    \/ NextPageLoop
    \/ LoopTick

SpecDelay == InitDelay /\ [][NextDelay]_vars

\* C30: the step that begins the processing of a listing starts the timer
\* of its delay, which runs while the listing is processed; and the
\* processing of a listing begins only when the listing processed before it
\* is finished and the timer started with that listing has fired.
C30_NextAfterProcessingAndDelay ==
    /\ [][(loopPc # "processing" /\ loopPc' = "processing") =>
              /\ delayLeft' = InterItemDelay /\ ~delayFired'
              /\ delayLeft # -1 => delayFired]_vars
    /\ [](loopPc = "awaitDelay" => loopIndex < MaxItems /\ loopTotal < loopBudget)

\* C30 witness: the first listing was processed within 1000 ms, and the loop
\* waits for the timer, which has 500 ms left, before it takes the second.
C30_WaitsForTimer ==
    /\ loopPc = "awaitDelay" /\ loopIndex = 1 /\ loopPage = 1
    /\ delayLeft = TimeStep /\ ~delayFired

\* ---------------------------------------------------------------------
\* The company of a listing (extractListingContent, "Get company name")
\* ---------------------------------------------------------------------

\* longest company text of the bounded check
MaxCompany == 5

CompanyTexts == UNION {[1..n -> Chars] : n \in 0..MaxCompany}

\* company = '' ; if (companyElement) company = companyElement.textContent.trim()
ExtractCompany ==
    /\ ~companyDone
    /\ company' = IF companyElement.found THEN Trim(companyElement.text) ELSE << >>
    /\ companyDone' = TRUE
    /\ UNCHANGED <<companyRest, companyElement>>

\* a listing element whose company element, if one is found, has any text
InitCompany ==
    /\ site = 1
    /\ storedMax = 0
    /\ apiKey = TRUE
    /\ FreshContext
    /\ titleElement = NoTitleElement
    /\ \/ companyElement = NoCompanyElement
       \/ companyElement \in [found : {TRUE}, text : CompanyTexts]
    /\ matchingJobs = << >>
    /\ rejectedJobs = << >>
    /\ storedMatching = JSONstringifyArray(<< >>)
    /\ storedRejected = JSONstringifyArray(<< >>)

NextCompany == ExtractCompany

SpecCompany == InitCompany /\ [][NextCompany]_vars

\* C31: a company text made of two identical halves, or of a text repeated
\* to fill the whole string, is extracted as one copy of that text, as the
\* title is.
C31_CompanyCollapsed ==
    companyDone =>
        LET full == Trim(companyElement.text)
        IN  \A n \in 1..Len(full) :
                LET T == SubSeq(full, 1, n)
                IN  (/\ Len(T) < Len(full)
                     /\ full = Repeat(T, Len(full) \div Len(T))
                     /\ Primitive(T)
                     /\ Trim(T) = T)
                    => company = T

\* ---------------------------------------------------------------------
\* The title cleanup on longer texts of a strong element
\* ---------------------------------------------------------------------

\* longest title text of the check of the cleanup
MaxCleanup == 10

CleanupTexts == UNION {[1..n -> Chars] : n \in 0..MaxCleanup}

\* a listing element whose title is in a strong element with any text
InitCleanup ==
    /\ site = 1
    /\ storedMax = 0
    /\ apiKey = TRUE
    /\ FreshContext
    /\ companyElement = NoCompanyElement
    /\ titleElement \in [kind : {"strong"}, text : CleanupTexts]
    /\ matchingJobs = << >>
    /\ rejectedJobs = << >>
    /\ storedMatching = JSONstringifyArray(<< >>)
    /\ storedRejected = JSONstringifyArray(<< >>)

NextCleanup == ExtractTitle

SpecCleanup == InitCleanup /\ [][NextCleanup]_vars

\* C38: the title cleanup (the " - " rule, then the whole-string
\* self-repetition rule) is idempotent: applied to an extracted title it
\* returns that title unchanged.
C38_CleanupIdempotent ==
    titleDone => Cleanup(title) = title

\* ---------------------------------------------------------------------
\* The entry scripts of a page context: the bridge, content.js and
\* content-module.js, and init of the adapter
\* ---------------------------------------------------------------------

\* startProcessing commands sent to the tab while it loads
MaxStart == 2

\* the positions of init of an adapter: its three dynamic imports, the
\* awaited init of the processor, and the listener registered
InitPositions == <<"import1", "import2", "import3", "processorInit", "listening">>

\* new JobAssistant(): the constructor calls initialize, which creates the
\* adapter and calls its init; init runs up to its first await
NewJobAssistant(script) ==
    /\ assistants' = assistants + 1
    /\ adapters' = adapters + 1
    /\ adapterPc' = InitPositions[1]
    /\ jobAssistant' = script

\* content-module.js whose body creates the JobAssistant without the test of
\* window.jobAssistant
ModuleBody_NoCheck ==
    /\ modulePc = "ready"
    /\ NewJobAssistant("module")
    /\ modulePc' = "done"
    /\ UNCHANGED <<contentPc, listeners, sent, answers>>
    /\ UNCHANGED entryRest

\* content.js: the body of the module, after its static imports: the test of
\* window.jobAssistant and the assignment are one synchronous run
ContentBody ==
    /\ contentPc = "pending"
    /\ IF jobAssistant # "none"
       THEN UNCHANGED <<jobAssistant, assistants, adapters, adapterPc>>
       ELSE NewJobAssistant("content")
    /\ contentPc' = "done"
    /\ UNCHANGED <<modulePc, listeners, sent, answers>>
    /\ UNCHANGED entryRest

\* content-module.js: one of the two awaited dynamic imports of
\* initializeExtension returns; a failed import ends in the catch
ModuleImport(ok) ==
    /\ modulePc \in {"start", "helpers"}
    /\ modulePc' = IF ~ok THEN "failed"
                   ELSE IF modulePc = "start" THEN "helpers" ELSE "ready"
    /\ UNCHANGED <<jobAssistant, assistants, adapters, contentPc, adapterPc, listeners,
                   sent, answers>>
    /\ UNCHANGED entryRest

\* content-module.js: after the imports, the test of window.jobAssistant and
\* the assignment are one synchronous run
ModuleBody ==
    /\ modulePc = "ready"
    /\ IF jobAssistant # "none"
       THEN UNCHANGED <<jobAssistant, assistants, adapters, adapterPc>>
       ELSE NewJobAssistant("module")
    /\ modulePc' = "done"
    /\ UNCHANGED <<contentPc, listeners, sent, answers>>
    /\ UNCHANGED entryRest

\* init of the adapter: an await returns. A failed import ends init in its
\* catch; after the init of the processor setupMessageListener registers the
\* listener of the adapter
AdapterInitStep(ok) ==
    /\ \E n \in 1..(Len(InitPositions) - 1) :
          /\ adapterPc = InitPositions[n]
          /\ adapterPc' = IF ok \/ adapterPc = "processorInit"
                          THEN InitPositions[n + 1] ELSE "failed"
    /\ listeners' = IF adapterPc' = "listening"
                    THEN listeners \cup {"adapter"} ELSE listeners
    /\ UNCHANGED <<jobAssistant, assistants, adapters, contentPc, modulePc, sent, answers>>
    /\ UNCHANGED entryRest

\* a startProcessing command reaches the listeners of the tab: the bridge
\* responds unless window.jobAssistant is set; the listener of the adapter,
\* if registered, returns true and responds later
StartProcessingCommand ==
    /\ sent < MaxStart
    /\ sent' = sent + 1
    /\ answers' = Append(answers,
                    [bridge  |-> "bridge" \in listeners /\ jobAssistant = "none",
                     adapter |-> IF "adapter" \in listeners THEN "pending" ELSE "no"])
    /\ UNCHANGED <<jobAssistant, assistants, adapters, contentPc, modulePc, adapterPc,
                   listeners>>
    /\ UNCHANGED entryRest

\* the listener of the adapter responds to command k: from the safety timeout
\* or when startProcessing has settled
AdapterResponds(k) ==
    /\ k \in DOMAIN answers
    /\ answers[k].adapter = "pending"
    /\ answers' = [answers EXCEPT ![k].adapter = "yes"]
    /\ UNCHANGED <<jobAssistant, assistants, adapters, contentPc, modulePc, adapterPc,
                   listeners, sent>>
    /\ UNCHANGED entryRest

\* the bridge is loaded; both entry scripts are to run
EntryStart ==
    /\ jobAssistant = "none"
    /\ assistants = 0
    /\ adapters = 0
    /\ contentPc = "pending"
    /\ modulePc = "start"
    /\ adapterPc = "none"
    /\ listeners = {"bridge"}
    /\ sent = 0
    /\ answers = << >>

InitEntry ==
    /\ site = 1
    /\ storedMax = 0
    /\ apiKey = TRUE
    /\ EntryStart
    /\ FreshAdapter
    /\ companyElement = NoCompanyElement
    /\ titleElement = NoTitleElement
    /\ matchingJobs = << >>
    /\ rejectedJobs = << >>
    /\ storedMatching = JSONstringifyArray(<< >>)
    /\ storedRejected = JSONstringifyArray(<< >>)

NextEntry ==
    \/ ContentBody
    \/ \E ok \in BOOLEAN : ModuleImport(ok)
    \/ ModuleBody
    \/ \E ok \in BOOLEAN : AdapterInitStep(ok)
    \/ StartProcessingCommand
    \/ \E k \in 1..MaxStart : AdapterResponds(k)

SpecEntry == InitEntry /\ [][NextEntry]_vars

\* C32: under every interleaving of the two entry scripts at most one
\* JobAssistant and at most one adapter is created in a page context.
C32_OneAssistantOneAdapter ==
    /\ assistants <= 1
    /\ adapters <= 1

\* both scripts have run their bodies, and the second one found the flag set
C32_BothScriptsRan ==
    /\ contentPc = "done"
    /\ modulePc = "done"
    /\ assistants = 1
    /\ adapters = 1

\* C36: every startProcessing command sent after the bridge is loaded is
\* answered by exactly one of the two listeners, the bridge or the adapter.
C36_ExactlyOneAnswers ==
    \A k \in DOMAIN answers :
        answers[k].bridge <=> (answers[k].adapter = "no")

\* ---------------------------------------------------------------------
\* The session counter and the frame of a failed dispatch
\* ---------------------------------------------------------------------

\* this step ends the pass of the loop over a listing that was not skipped
ListingReturns ==
    /\ pc \in {"loop", "extract", "await"}
    /\ pc' = "loop"
    /\ i' = i + 1
    /\ ~(pc = "loop" /\ getListingId(listings[i], nextGen) \in processedListings)

\* this step ends the pass with processListing returning true: the listing is
\* marked under the id of the loop and counted for the page
ReturnsSuccess ==
    /\ ListingReturns
    /\ pc # "loop"
    /\ listingId \in processedListings'
    /\ processedCount' = processedCount + 1

\* this step is the settlement of the awaited request without success: a
\* timeout, a transport failure or an error response
DispatchFails ==
    /\ pc = "await"
    /\ pc' # "await"
    /\ curReq \in 1..Len(reqs)
    /\ ~reqs[curReq].settled
    /\ reqs'[curReq].settled
    /\ ~reqs'[curReq].outcome.success

\* this step skips the listing at the loop head: its id is in processedListings
SkipsProcessed ==
    /\ pc = "loop"
    /\ pc' = "loop"
    /\ i' = i + 1
    /\ getListingId(listings[i], nextGen) \in processedListings

\* C33: totalJobsProcessedThisSession grows by exactly 1 with every success
\* return of processListing, after a cache hit or after a fresh dispatch, and
\* stays as it is when the listing is skipped as processed, when the listing
\* is no longer in the page, when the extraction fails and when the dispatch
\* fails.
C33_CountsSuccessOnly ==
    [][/\ ReturnsSuccess => total' = total + 1
       /\ (ListingReturns /\ ~ReturnsSuccess) => total' = total
       /\ SkipsProcessed => total' = total
       /\ DispatchFails => total' = total
       /\ (pc \in {"loop", "extract", "await"} /\ total' # total) => ReturnsSuccess]_vars

\* after a reload of the page the listing was counted again, from the cache:
\* the one request is that of the session before the reload
C33_CountedFromCache ==
    /\ loads = 1
    /\ total = 1
    /\ processedCount = 1
    /\ Len(reqs) = 1
    /\ reqs[1].sess # owner
    /\ isProcessing
    /\ pc = "loop"

\* C34: a dispatch that fails (timeout, transport failure, error response)
\* leaves the in-memory cache, the per-id store, both collections in memory
\* and in storage, and processedListings as they were.
C34_FailedDispatchChangesNothing ==
    [][DispatchFails =>
          UNCHANGED <<responseCache, localStore, matchingJobs, rejectedJobs,
                      storedMatching, storedRejected, processedListings>>]_vars

\* the first listing's request has failed and the loop has gone on with
\* nothing marked and nothing stored
C34_AfterFailedDispatch ==
    /\ pc = "loop"
    /\ i = 2
    /\ total = 0
    /\ Len(reqs) = 1
    /\ reqs[1].settled
    /\ ~reqs[1].outcome.success
    /\ processedListings = {}
    /\ responseCache = << >>

\* C39: every id in processedListings has an entry in the in-memory cache
\* under the key job_<id>.
C39_ProcessedIdsAreCached ==
    \A id \in processedListings : HasCachedResult(responseCache, CacheKey(id))

\* ---------------------------------------------------------------------
\* Removal of an entry in a results page, next to the processor of the tab
\* ---------------------------------------------------------------------

\* jobs.filter(job => job.id !== jobId)
FilterOut(jobs, id) ==
    LET F[n \in 0..Len(jobs)] ==
            IF n = 0 THEN << >>
            ELSE IF jobs[n].id # id THEN Append(F[n - 1], jobs[n]) ELSE F[n - 1]
    IN  F[Len(jobs)]

\* removeJob(job.id) of the results page for the k-th entry it shows: the
\* collection is read from chrome.storage.local, filtered, written back and
\* shown.  removed records the list, the id and the time of the removal.
RemoveJob(k) ==
    /\ resultsPage \in {"yes_jobs", "no_jobs"}
    /\ k \in 1..Len(jobList)
    /\ LET id == jobList[k].id
           stored == IF resultsPage = "yes_jobs" THEN storedMatching ELSE storedRejected
           jobs == FilterOut(JSONparseArray(stored), id)
       IN  /\ IF resultsPage = "yes_jobs"
              THEN /\ storedMatching' = JSONstringifyArray(jobs)
                   /\ UNCHANGED storedRejected
              ELSE /\ storedRejected' = JSONstringifyArray(jobs)
                   /\ UNCHANGED storedMatching
           /\ jobList' = jobs
           /\ removed' = removed \cup {[list |-> resultsPage, id |-> id, at |-> clock]}
    /\ UNCHANGED <<site, titleVars, stepVars, storageVars, descVars, delayVars,
                   companyVars, entryVars, panelVars, badgeVars, resultsPage, storedJobs,
                   page, storedMax, apiKey, lsWorks, sessVars, responseCache,
                   localStore, matchingJobs, rejectedJobs, clock,
                   reqs, cmds, loads, crossDelivered, ignoredReset>>

NextRemove ==
    \/ \E id \in JobIds : \E data \in Outcomes : ProcessListing(id, data)
    \/ \E b \in BOOLEAN : SetLsWorks(b)
    \/ Reload
    \/ LoadYesJobs
    \/ LoadNoJobs
    \/ \E k \in 1..MaxStored : RemoveJob(k)

\* the tab on result list 1 with nothing stored, no results page open
InitRemove ==
    /\ site = 1
    /\ storedMax = 0
    /\ apiKey = TRUE
    /\ Fresh

SpecRemove == InitRemove /\ [][NextRemove]_vars

\* C35: an id that the user removed from a collection in a results page is in
\* the stored collection again only with an entry of a later evaluation of
\* that listing: a put for another listing does not bring the old entry back.
C35_RemovedStaysAbsent ==
    \A r \in removed :
        LET jobs == JSONparseArray(IF r.list = "yes_jobs" THEN storedMatching
                                   ELSE storedRejected)
        IN  \A k \in 1..Len(jobs) : jobs[k].id = r.id => jobs[k].timestamp > r.at

\* ---------------------------------------------------------------------
\* The detail panel over the activations of successive listings
\* (processListing 476-489, "Get Description" 576-607)
\* ---------------------------------------------------------------------

\* listings processed one after the other
MaxListings == 2

\* await new Promise(resolve => setTimeout(resolve, 1000)) after the click
ActivationWait == 1000

\* nothing recorded for the listing: the safety timeout resolved first
NoDescription == -1

\* processListing of the next listing: scrollIntoView, listing.click() and
\* the wait for the page
ClickListing ==
    /\ ppc = "idle"
    /\ cur < MaxListings
    /\ cur' = cur + 1
    /\ active' = cur + 1
    /\ ppc' = "settle"
    /\ pwait' = ActivationWait
    /\ UNCHANGED <<shown, psafety, recorded>>
    /\ UNCHANGED panelRest

\* the page has loaded the details of the activated listing into the panel
PanelLoads ==
    /\ active # 0
    /\ shown # active
    /\ shown' = active
    /\ UNCHANGED <<active, cur, ppc, pwait, psafety, recorded>>
    /\ UNCHANGED panelRest

\* the page takes the description container of another listing out of the
\* panel while it loads
PanelClears ==
    /\ shown # 0
    /\ shown # active
    /\ shown' = 0
    /\ UNCHANGED <<active, cur, ppc, pwait, psafety, recorded>>
    /\ UNCHANGED panelRest

\* extractListingContent reaches "Get Description": clickableElement.click(),
\* the first poll and the safety timeout are set
ClickForDescription ==
    /\ ppc = "settle"
    /\ pwait = 0
    /\ ppc' = "polling"
    /\ pwait' = PollInterval
    /\ psafety' = DescriptionTimeout
    /\ UNCHANGED <<shown, active, cur, recorded>>
    /\ UNCHANGED panelRest

\* checkDescription: document.querySelector('.jobs-description'); a
\* container, whatever it shows, gives the description and resolves
PollDescription ==
    /\ ppc = "polling"
    /\ pwait = 0
    /\ IF shown # 0
       THEN /\ recorded' = Append(recorded, shown)
            /\ ppc' = "idle"
            /\ psafety' = -1
            /\ UNCHANGED pwait
       ELSE /\ pwait' = PollInterval
            /\ UNCHANGED <<ppc, psafety, recorded>>
    /\ UNCHANGED <<shown, active, cur>>
    /\ UNCHANGED panelRest

\* the safety timeout of the wait: resolve() with no description
SafetyTimeoutPanel ==
    /\ ppc = "polling"
    /\ psafety = 0
    /\ recorded' = Append(recorded, NoDescription)
    /\ ppc' = "idle"
    /\ psafety' = -1
    /\ pwait' = 0
    /\ UNCHANGED <<shown, active, cur>>
    /\ UNCHANGED panelRest

\* 500 ms pass while no timer is due
PanelTick ==
    /\ ppc \in {"settle", "polling"}
    /\ pwait > 0
    /\ psafety # 0
    /\ pwait' = pwait - PollInterval
    /\ psafety' = IF psafety > 0 THEN psafety - PollInterval ELSE psafety
    /\ UNCHANGED <<shown, active, cur, ppc, recorded>>
    /\ UNCHANGED panelRest

InitPanel ==
    /\ site = 1
    /\ storedMax = 0
    /\ apiKey = TRUE
    /\ Fresh

NextPanel ==
    \/ ClickListing
    \/ PanelLoads
    \/ PanelClears
    \/ ClickForDescription
    \/ PollDescription
    \/ SafetyTimeoutPanel
    \/ PanelTick

SpecPanel == InitPanel /\ [][NextPanel]_vars

\* C37: the description recorded for a listing is the one the panel loaded
\* for that listing's own activation, never the content shown for a listing
\* activated before it.
C37_OwnDescriptionRecorded ==
    \A k \in DOMAIN recorded : recorded[k] \in {k, NoDescription}

\* ---------------------------------------------------------------------
\* The badges of the listing elements (updateListingUI,
\* updateBadgeAppearance) over renders and rescans
\* ---------------------------------------------------------------------

\* badges a listing element can hold in the check
MaxBadges == 2

\* textContent and backgroundColor of a badge for result.isGoodFit: === true,
\* === false, anything else
BadgeFor(isGoodFit) ==
    IF isGoodFit = "Fit" THEN [textContent |-> "check", backgroundColor |-> "#4caf50"]
    ELSE IF isGoodFit = "NoFit"
    THEN [textContent |-> "cross", backgroundColor |-> "#f44336"]
    ELSE [textContent |-> "?", backgroundColor |-> "#ff9800"]

\* LinkedInAdapter.updateBadgeAppearance: the first badge of the element
\* takes the text and the colour of the result
updateBadgeAppearance(children, isGoodFit) ==
    IF children = << >> THEN children
    ELSE [children EXCEPT ![1] = BadgeFor(isGoodFit)]

\* updateListingUI without the test for a badge the element already has
updateListingUI_AlwaysAppends(children, isGoodFit) ==
    Append(children, BadgeFor(isGoodFit))

\* LinkedInAdapter.updateListingUI on an element of the document
updateListingUI(children, isGoodFit) ==
    IF children # << >>
    THEN updateBadgeAppearance(children, isGoodFit)
    ELSE Append(children, BadgeFor(isGoodFit))

\* processListing of the element e ends with a result: the cached one, or on a
\* miss the one of the analyzer with isGoodFit v, which is cached; the element
\* is still in the document and updateListingUI is called
RenderResult(e, v) ==
    /\ Len(badges[e]) < MaxBadges
    /\ LET j == elementJob[e]
           r == IF cachedResults[j] # "none" THEN cachedResults[j] ELSE v
       IN  /\ cachedResults' = [cachedResults EXCEPT ![j] = r]
           /\ badges' = [badges EXCEPT ![e] = updateListingUI(badges[e], r)]
           /\ lastRender' = [lastRender EXCEPT ![e] = r]
    /\ UNCHANGED elementJob
    /\ UNCHANGED badgeRest

\* displayCachedResultsForVisibleListings: every listing with a cached result
\* is rendered with it
RescanListings ==
    /\ \A e \in Elements : Len(badges[e]) < MaxBadges
    /\ \E e \in Elements : cachedResults[elementJob[e]] # "none"
    /\ badges' = [e \in Elements |->
                    IF cachedResults[elementJob[e]] # "none"
                    THEN updateListingUI(badges[e], cachedResults[elementJob[e]])
                    ELSE badges[e]]
    /\ lastRender' = [e \in Elements |->
                        IF cachedResults[elementJob[e]] # "none"
                        THEN cachedResults[elementJob[e]]
                        ELSE lastRender[e]]
    /\ UNCHANGED <<elementJob, cachedResults>>
    /\ UNCHANGED badgeRest

\* the page shows another job in the listing element e and keeps the
\* children the adapter gave it
PageRebinds(e, j) ==
    /\ elementJob[e] # j
    /\ elementJob' = [elementJob EXCEPT ![e] = j]
    /\ UNCHANGED <<badges, lastRender, cachedResults>>
    /\ UNCHANGED badgeRest

\* the page builds the listing element e anew: the badge is gone
PageRerenders(e) ==
    /\ badges[e] # << >>
    /\ badges' = [badges EXCEPT ![e] = << >>]
    /\ lastRender' = [lastRender EXCEPT ![e] = "none"]
    /\ UNCHANGED <<elementJob, cachedResults>>
    /\ UNCHANGED badgeRest

InitBadges ==
    /\ site = 1
    /\ storedMax = 0
    /\ apiKey = TRUE
    /\ Fresh

NextBadges ==
    \/ \E e \in Elements : \E v \in Verdicts : RenderResult(e, v)
    \/ RescanListings
    \/ \E e \in Elements : \E j \in Elements : PageRebinds(e, j)
    \/ \E e \in Elements : PageRerenders(e)

SpecBadges == InitBadges /\ [][NextBadges]_vars

\* the look of the badge for a verdict: Fit, NoFit, or Unknown for every
\* verdict that is not a boolean
Look(b) ==
    CASE b.textContent = "check" /\ b.backgroundColor = "#4caf50" -> "Fit"
      [] b.textContent = "cross" /\ b.backgroundColor = "#f44336" -> "NoFit"
      [] b.textContent = "?" /\ b.backgroundColor = "#ff9800" -> "Unknown"
      [] OTHER -> "none"

\* C40: after any sequence of renders and rescans every listing element has
\* at most one badge, and that badge shows the verdict of the most recent
\* render of the element: Fit, NoFit, or Unknown for any other verdict.
C40_OneBadgeOfLastRender ==
    \A e \in Elements :
        /\ Len(badges[e]) <= 1
        /\ lastRender[e] # "none" =>
              /\ Len(badges[e]) = 1
              /\ Look(badges[e][1]) = lastRender[e]

\* an element that was rendered as a fit shows another job after a rescan,
\* with the one badge turned to no fit
C40_BadgeUpdated ==
    \E e \in Elements :
        /\ elementJob[e] # e
        /\ cachedResults[e] = "Fit"
        /\ lastRender[e] = "NoFit"
        /\ Len(badges[e]) = 1

====
